---- MODULE Spec2Model ----
(***************************************************************************)
(* SafeOps streaming analysis pipeline: the Drain template miner of the    *)
(* log-parser, the Isolation Forest wrapper of the anomaly-detector, and   *)
(* the two queue workers.  Every subsystem has its own next-state relation *)
(* over the shared variables; the variables of the other subsystems stay   *)
(* unchanged.                                                              *)
(***************************************************************************)
EXTENDS Integers, Sequences, FiniteSets, TLC

\* The Drain parser: the tree (a map from node path to node), the LogCluster
\* objects in creation order, the clusters index, the number of parse calls,
\* the last returned tuple and, per line, the template_ids returned for it.
VARIABLES root, cluster_objs, clusters, nparsed, last_result, returned

drainVars == <<root, cluster_objs, clusters, nparsed, last_result, returned>>

\* The model singleton (model, scaler, is_trained, training_stats), the
\* three files at MODEL_PATH, the thread running train() (t_*) and the
\* thread running predict() (p_*).  ntrain and npredict count the calls;
\* saved is the instance as it was when save_model last returned True and
\* fresh says that the instance was loaded from that save and not retrained.
VARIABLES model, scaler, is_trained, training_stats,
          model_file, scaler_file, meta_file,
          t_pc, t_X, t_cols, t_X_scaled, ntrain,
          p_pc, p_features, p_scaler, p_forest_p, p_forest_d, npredict,
          result, saved, fresh

instVars == <<model, scaler, is_trained, training_stats>>

diskVars == <<model_file, scaler_file, meta_file>>

trainVars == <<t_pc, t_X, t_cols, t_X_scaled, ntrain>>

predictVars == <<p_pc, p_features, p_scaler, p_forest_p, p_forest_d,
                 npredict, result>>

modelVars == <<instVars, diskVars, trainVars, predictVars, saved, fresh>>

\* The queues (head first) with the numbers of messages sent, injected,
\* published and settled, the crashes so far, the log-parser worker (lp_*,
\* its store connections and its stores) and the anomaly-detector worker
\* (ad_*, its counters and its result table).
VARIABLES raw_logs_queue, features_queue, nraw, ninjected, npublished,
          raw_settled, features_settled, ncrash,
          lp_pc, lp_h, mongo_connected, pg_connected,
          parsed_logs, raw_processed, build_metrics,
          ad_pc, ad_h, processed_count, anomaly_count, anomaly_results

rawVars == <<raw_logs_queue, nraw, raw_settled>>

featVars == <<features_queue, ninjected, npublished, features_settled>>

parserVars == <<lp_pc, lp_h, mongo_connected, pg_connected>>

parserStores == <<parsed_logs, raw_processed, build_metrics>>

detectorVars == <<ad_pc, ad_h, processed_count, anomaly_count>>

\* The database clock (every insert is a transaction of its own and gets a
\* later created_at), and the HTTP API: the requests answered so far, the
\* last answer and the files of the backups directory.
VARIABLES clock, api_calls, api_response, backup_files

apiVars == <<api_calls, api_response, backup_files>>

\* The broker as the consumers see it, the consumer thread of the
\* anomaly-detector (its position, its reconnect_delay, the channel of its
\* handler, the last time.sleep and whether a connection succeeded since),
\* and the log-parser process.
VARIABLES broker_up, ct_pc, reconnect_delay, ad_channel, last_wait,
          connected_since, lp_proc

consumerVars == <<ct_pc, reconnect_delay, ad_channel, last_wait,
                  connected_since>>

reconnectVars == <<broker_up, consumerVars, lp_proc>>

\* A FeatureExtractor at work outside the queue worker: its position, the
\* payload given to extract(), the features message built from the
\* result, and the number of payloads extracted.
VARIABLES fx_pc, fx_payload, fx_message, fx_count

extractVars == <<fx_pc, fx_payload, fx_message, fx_count>>

\* The API thread that serves POST /queue/process: its position, the
\* message it got with basic_get and the process_one calls it has left.
VARIABLES qp_pc, qp_h, qp_left

queueApiVars == <<qp_pc, qp_h, qp_left>>

\* What no queue worker touches.
otherVars == <<apiVars, reconnectVars, extractVars, queueApiVars>>

\* The queues, the workers, their stores and the database clock.
workerVars ==
  <<rawVars, featVars, ncrash, parserVars, parserStores, detectorVars,
    anomaly_results, clock>>

pipeVars == <<rawVars, featVars, ncrash, parserVars, parserStores,
              detectorVars, anomaly_results, clock, otherVars>>

parserSide == <<rawVars, parserVars, parserStores, drainVars, otherVars>>

detectorSide ==
  <<detectorVars, anomaly_results, clock, modelVars, otherVars>>

vars == <<drainVars, modelVars, pipeVars>>

notDrainVars == <<modelVars, pipeVars>>

notModelVars == <<drainVars, pipeVars>>

(***************************************************************************)
(* Drain template miner (services/log-parser/src/drain.py)                 *)
(***************************************************************************)

\* DRAIN_DEPTH default.
depth == 4

\* DRAIN_SIM_TH default 0.4, kept as the fraction sim_th_num / sim_th_den.
sim_th_num == 2

sim_th_den == 5

\* DRAIN_MAX_CHILDREN, configured small so that a node can fill up.
max_children == 2

\* Number of parse() calls in one behaviour.
MaxParses == 5

WILDCARD == "<*>"

\* Tokens that contain a digit (re.search(r'\d', token)).
DigitTokens == {"req1", "b1", "b2", "b3", "c1", "c2", "c3"}

_has_numbers(token) == token \in DigitTokens

\* Raw lines, given as the pieces re.split leaves between delimiters; an
\* empty piece "" is what two adjacent delimiters leave.  The last line is
\* the text <*> itself.
RawLines ==
  { <<"req1", "b1", "c1">>, <<"req1", "b2", "c2">>, <<"req1", "b1", "c2">>,
    <<"req1", "b3", "c1">>, <<"INFO", "start">>, <<"INFO", "", "stop">>,
    <<"WARN", "disk">>, <<"ERR", "disk">>, <<"">>, <<WILDCARD>>,
    <<"INFO", "b2", "c2">> }

RECURSIVE DropEmpty(_)
DropEmpty(pieces) ==
  IF pieces = <<>> THEN <<>>
  ELSE IF Head(pieces) = "" THEN DropEmpty(Tail(pieces))
       ELSE <<Head(pieces)>> \o DropEmpty(Tail(pieces))

\* URLs in log lines, and what URL_PATTERN captures of each (the text after
\* the scheme), cut into chunks: a chunk is a run of characters, and no
\* chunk here ends with the characters of another.
UrlPieces ==
  {"https://github.com/x", "https://cdn.github.com/x",
   "https://evil-github.com/x", "https://GitHub.com:8080/x",
   "https://example.com/x", "https://github.com.example.com/x"}

UrlCaptured(piece) ==
  CASE piece = "https://github.com/x" -> <<"github", ".", "com", "/", "x">>
    [] piece = "https://cdn.github.com/x" ->
         <<"cdn", ".", "github", ".", "com", "/", "x">>
    [] piece = "https://evil-github.com/x" ->
         <<"evil-", "github", ".", "com", "/", "x">>
    [] piece = "https://GitHub.com:8080/x" ->
         <<"GitHub", ".", "com", ":", "8080", "/", "x">>
    [] piece = "https://example.com/x" -> <<"example", ".", "com", "/", "x">>
    [] piece = "https://github.com.example.com/x" ->
         <<"github", ".", "com", ".", "example", ".", "com", "/", "x">>

\* VARIABLE_PATTERNS: a URL becomes the token <URL>.
MaskVariables(log_line) ==
  [i \in DOMAIN log_line |->
     IF log_line[i] \in UrlPieces THEN "<URL>" ELSE log_line[i]]

\* preprocess: the variables masked, and the split pieces with the empty
\* ones filtered out.
preprocess(log_line) == DropEmpty(MaskVariables(log_line))

\* get_template_id: MD5 of the joined tokens; distinct token lists give
\* distinct digests.
get_template_id(tokens) == [md5 |-> tokens]

Min(a, b) == IF a < b THEN a ELSE b

Max(a, b) == IF a > b THEN a ELSE b

\* DrainNode(): no children, no clusters.
DrainNode == [children |-> {}, clusters |-> <<>>]

NoCluster == 0

\* _seq_similarity as the fraction <<matches, max(total, 1)>>.
RECURSIVE SimCount(_, _, _, _, _)
SimCount(seq1, seq2, i, matches, total) ==
  IF i > Len(seq1) THEN <<matches, Max(total, 1)>>
  ELSE IF seq1[i] = WILDCARD \/ seq2[i] = WILDCARD
       THEN SimCount(seq1, seq2, i + 1, matches, total)
       ELSE SimCount(seq1, seq2, i + 1,
                     IF seq1[i] = seq2[i] THEN matches + 1 ELSE matches,
                     total + 1)

_seq_similarity(seq1, seq2) ==
  IF Len(seq1) # Len(seq2) THEN <<0, 1>>
  ELSE SimCount(seq1, seq2, 1, 0, 0)

\* sim > sim_th
AboveThreshold(sim) == sim[1] * sim_th_den > sim_th_num * sim[2]

\* sim > best_sim, on fractions with positive denominators.
FracGreater(sim, best) == sim[1] * best[2] > best[1] * sim[2]

\* _fast_match: index of the best cluster of the leaf list, NoCluster if none.
RECURSIVE FastMatchFrom(_, _, _, _, _, _)
FastMatchFrom(tokens, objs, leaf, i, best_match, best_sim) ==
  IF i > Len(leaf) THEN best_match
  ELSE LET sim == _seq_similarity(tokens, objs[leaf[i]].template_tokens)
       IN IF AboveThreshold(sim) /\ FracGreater(sim, best_sim)
          THEN FastMatchFrom(tokens, objs, leaf, i + 1, leaf[i], sim)
          ELSE FastMatchFrom(tokens, objs, leaf, i + 1, best_match, best_sim)

_fast_match(tokens, objs, leaf) ==
  FastMatchFrom(tokens, objs, leaf, 1, NoCluster, <<-1, 1>>)

\* The key a token takes in the tree: tokens with digits go to the wildcard.
TreeKey(token) == IF _has_numbers(token) THEN WILDCARD ELSE token

NoPath == <<"<none>">>

\* tree_search, descent part: the path of the leaf reached, or NoPath.
RECURSIVE SearchFrom(_, _, _, _)
SearchFrom(tr, path, tokens, d) ==
  IF d >= Min(depth - 1, Len(tokens)) THEN path
  ELSE LET token == TreeKey(tokens[d + 1])
       IN IF token \in tr[path].children
          THEN SearchFrom(tr, Append(path, token), tokens, d + 1)
          ELSE IF WILDCARD \in tr[path].children
               THEN SearchFrom(tr, Append(path, WILDCARD), tokens, d + 1)
               ELSE NoPath

tree_search(tr, objs, tokens) ==
  IF tokens = <<>> THEN NoCluster
  ELSE LET length_key == ToString(Len(tokens))
       IN IF length_key \notin tr[<<>>].children THEN NoCluster
          ELSE LET leaf == SearchFrom(tr, <<length_key>>, tokens, 0)
               IN IF leaf = NoPath THEN NoCluster
                  ELSE _fast_match(tokens, objs, tr[leaf].clusters)

\* tr with the child key added under path (a new DrainNode if missing).
WithChild(tr, path, key) ==
  LET child == Append(path, key)
      tr1 == [tr EXCEPT ![path].children = @ \cup {key}]
  IN IF child \in DOMAIN tr THEN tr1
     ELSE [p \in DOMAIN tr \cup {child} |->
             IF p = child THEN DrainNode ELSE tr1[p]]

\* add_to_tree, path-building loop: the tree and the leaf path reached.
RECURSIVE BuildFrom_unbounded(_, _, _, _)
BuildFrom_unbounded(tr, path, tokens, d) ==
  IF d >= Min(depth - 1, Len(tokens)) THEN [tree |-> tr, leaf |-> path]
  ELSE BuildFrom_unbounded(WithChild(tr, path, TreeKey(tokens[d + 1])),
                           Append(path, TreeKey(tokens[d + 1])), tokens,
                           d + 1)

RECURSIVE BuildFrom(_, _, _, _)
BuildFrom(tr, path, tokens, d) ==
  IF d >= Min(depth - 1, Len(tokens)) THEN [tree |-> tr, leaf |-> path]
  ELSE LET token == TreeKey(tokens[d + 1])
       IN IF token \notin tr[path].children
          THEN IF Cardinality(tr[path].children) < max_children
               THEN BuildFrom(WithChild(tr, path, token),
                              Append(path, token), tokens, d + 1)
               ELSE BuildFrom(WithChild(tr, path, WILDCARD),
                              Append(path, WILDCARD), tokens, d + 1)
          ELSE BuildFrom(tr, Append(path, token), tokens, d + 1)

\* add_to_tree that stops at the length node.
add_to_tree_shallow(tr, tokens, cluster) ==
  LET length_key == ToString(Len(tokens))
      tr1 == WithChild(tr, <<>>, length_key)
  IN [tr1 EXCEPT ![<<length_key>>].clusters = Append(@, cluster)]

add_to_tree(tr, tokens, cluster) ==
  LET length_key == ToString(Len(tokens))
      tr1 == WithChild(tr, <<>>, length_key)
      built == BuildFrom(tr1, <<length_key>>, tokens, 0)
  IN [built.tree EXCEPT ![built.leaf].clusters = Append(@, cluster)]

\* update_template: positions that disagree become the wildcard.
update_template_dropping(tokens, template_tokens) ==
  SelectSeq([i \in 1..Min(Len(tokens), Len(template_tokens)) |->
               IF tokens[i] = template_tokens[i] THEN tokens[i] ELSE ""],
            LAMBDA t : t # "")

update_template_keeping(tokens, template_tokens) == template_tokens

update_template_overwriting(tokens, template_tokens) ==
  [i \in 1..Min(Len(tokens), Len(template_tokens)) |-> tokens[i]]

update_template(tokens, template_tokens) ==
  [i \in 1..Min(Len(tokens), Len(template_tokens)) |->
     IF tokens[i] = template_tokens[i] THEN tokens[i] ELSE WILDCARD]

\* DrainParser.__init__: an empty root and an empty cluster index.  The
\* tree is a map from node path to node, cluster_objs the LogCluster objects
\* in creation order, clusters the index keyed by template_id.
InitDrain ==
  /\ root = [p \in {<<>>} |-> DrainNode]
  /\ cluster_objs = <<>>
  /\ clusters = <<>>
  /\ nparsed = 0
  /\ last_result = [line |-> <<>>, template_id |-> "none", template |-> <<>>,
                    tokens |-> <<>>]
  /\ returned = [l \in RawLines |-> {}]

\* The clusters index after self.clusters[template_id] = cluster.
IndexPut(index, template_id, c) ==
  [k \in DOMAIN index \cup {template_id} |->
     IF k = template_id THEN c ELSE index[k]]

\* The parser object: the tree, the cluster objects and the clusters index.
DrainState ==
  [root |-> root, cluster_objs |-> cluster_objs, clusters |-> clusters]

\* parse(log_line, log_id) on the parser dr: the parser afterwards and the
\* returned (template_id, template, tokens).  log_id is None or the line
\* number as a string.
parse(dr, log_line, has_log_id) ==
  LET tokens == preprocess(log_line)
      found == tree_search(dr.root, dr.cluster_objs, tokens)
      new_id == get_template_id(tokens)
      new_c == Len(dr.cluster_objs) + 1
      updated == [dr.cluster_objs EXCEPT
                    ![found].template_tokens = update_template(tokens, @),
                    ![found].size = IF has_log_id THEN @ + 1 ELSE @]
  IN IF tokens = <<>>
     THEN [root |-> dr.root, cluster_objs |-> dr.cluster_objs,
           clusters |-> dr.clusters,
           template_id |-> "empty", template |-> <<>>, tokens |-> <<>>]
     ELSE IF found # NoCluster
     THEN [root |-> dr.root, cluster_objs |-> updated,
           clusters |-> dr.clusters,
           template_id |-> dr.cluster_objs[found].template_id,
           template |-> updated[found].template_tokens,
           tokens |-> tokens]
     ELSE [root |-> add_to_tree(dr.root, tokens, new_c),
           cluster_objs |->
             Append(dr.cluster_objs,
                    [template_id |-> new_id, template_tokens |-> tokens,
                     size |-> IF has_log_id THEN 1 ELSE 0]),
           clusters |-> IndexPut(dr.clusters, new_id, new_c),
           template_id |-> new_id, template |-> tokens, tokens |-> tokens]

\* One iteration of parse_logs: parse(line, log_id=str(i)).
Parse ==
  \E log_line \in RawLines :
    LET r == parse(DrainState, log_line, TRUE)
    IN /\ nparsed < MaxParses
       /\ nparsed' = nparsed + 1
       /\ root' = r.root
       /\ cluster_objs' = r.cluster_objs
       /\ clusters' = r.clusters
       /\ last_result' = [line |-> log_line, template_id |-> r.template_id,
                          template |-> r.template, tokens |-> r.tokens]
       /\ returned' = [returned EXCEPT ![log_line] = @ \cup {r.template_id}]
       /\ UNCHANGED notDrainVars

(***************************************************************************)
(* Isolation Forest wrapper (services/anomaly-detector/src/model.py)       *)
(* Scores and z-scores are integers in hundredths (-0.05 is -5).           *)
(***************************************************************************)

FEATURE_NAMES ==
  << "duration_seconds", "log_line_count", "char_density", "error_count",
     "warning_count", "step_count", "unique_templates", "template_entropy",
     "suspicious_pattern_count", "external_ip_count", "external_url_count",
     "base64_pattern_count" >>

FeatureSet == { FEATURE_NAMES[i] : i \in DOMAIN FEATURE_NAMES }

FEATURE_THRESHOLDS ==
  [ duration_seconds |-> [high |-> 600, very_high |-> 1800,
                          reason |-> "Unusually long build duration"],
    log_line_count |-> [high |-> 8000, very_high |-> 15000,
                        reason |-> "Excessive log volume"],
    char_density |-> [high |-> 150, very_high |-> 300,
                      reason |-> "Unusually dense log lines"],
    error_count |-> [high |-> 200, very_high |-> 500,
                     reason |-> "High error count"],
    warning_count |-> [high |-> 300, very_high |-> 600,
                       reason |-> "Excessive warnings"],
    step_count |-> [high |-> 30, very_high |-> 50,
                    reason |-> "Unusual number of pipeline steps"],
    unique_templates |-> [high |-> 600, very_high |-> 1000,
                          reason |-> "Unusual log pattern diversity"],
    template_entropy |-> [high |-> 8, very_high |-> 10,
                          reason |-> "High log randomness (possible obfuscation)"],
    suspicious_pattern_count |-> [high |-> 1, very_high |-> 5,
                          reason |-> "Suspicious command patterns detected"],
    external_ip_count |-> [high |-> 1, very_high |-> 5,
                           reason |-> "Multiple external IP connections"],
    external_url_count |-> [high |-> 10, very_high |-> 50,
                            reason |-> "Excessive untrusted URL access"],
    base64_pattern_count |-> [high |-> 5, very_high |-> 15,
                              reason |-> "Potential data obfuscation"] ]

\* Python None as a dict value, and float NaN, as integers outside the
\* value range.
None == -1000000

NaN == -2000000

\* features.get(name, default)
Get(dict, name, default) ==
  IF name \in DOMAIN dict THEN dict[name] ELSE default

\* value or 0
OrZero(value) == IF value = None THEN 0 ELSE value

\* _check_security_rules with rule 1 firing only above one suspicious
\* pattern.
_check_security_rules_above_one(features) ==
  LET suspicious_count == OrZero(Get(features, "suspicious_pattern_count", 0))
  IN IF suspicious_count > 1
     THEN << [feature |-> "suspicious_pattern_count",
              value |-> suspicious_count,
              reason |-> "suspicious command pattern(s)",
              severity |-> "critical"] >>
     ELSE <<>>

\* _check_security_rules with no rule at all.
_check_security_rules_none(features) == <<>>

\* _check_security_rules: the list of override reasons (the override fires
\* when the list is not empty).
_check_security_rules(features) ==
  LET suspicious_count == OrZero(Get(features, "suspicious_pattern_count", 0))
      external_ip_count == OrZero(Get(features, "external_ip_count", 0))
      duration == OrZero(Get(features, "duration_seconds", 0))
      rule1 == IF suspicious_count >= 1
               THEN << [feature |-> "suspicious_pattern_count",
                        value |-> suspicious_count,
                        reason |-> "suspicious command pattern(s)",
                        severity |-> "critical"] >>
               ELSE <<>>
      rule2 == IF external_ip_count >= 2 /\ suspicious_count >= 1
               THEN << [feature |-> "external_ip_count",
                        value |-> external_ip_count,
                        reason |-> "external IPs with suspicious patterns",
                        severity |-> "critical"] >>
               ELSE <<>>
      rule3 == IF duration > 1200 /\ suspicious_count >= 1
               THEN << [feature |-> "duration_seconds",
                        value |-> duration,
                        reason |-> "possible cryptomining",
                        severity |-> "critical"] >>
               ELSE <<>>
  IN rule1 \o rule2 \o rule3

\* _extract_feature_vector
_extract_feature_vector(features) ==
  [i \in DOMAIN FEATURE_NAMES |->
     LET value == Get(features, FEATURE_NAMES[i], 0)
     IN IF value # None THEN value ELSE 0]

\* _score_to_confidence: clamp(0.5 - score, 0, 1)
_score_to_confidence(score) == Max(0, Min(100, 50 - score))

\* _generate_reasons, the loop over FEATURE_THRESHOLDS in table order.
RECURSIVE ThresholdReasons(_, _)
ThresholdReasons(features, i) ==
  IF i > Len(FEATURE_NAMES) THEN <<>>
  ELSE LET feature_name == FEATURE_NAMES[i]
           thresholds == FEATURE_THRESHOLDS[feature_name]
           value == Get(features, feature_name, 0)
           rest == ThresholdReasons(features, i + 1)
       IN IF value = None THEN rest
          ELSE IF value >= thresholds.very_high
          THEN << [feature |-> feature_name, value |-> value,
                   threshold |-> thresholds.very_high,
                   reason |-> thresholds.reason,
                   severity |-> "critical"] >> \o rest
          ELSE IF value >= thresholds.high
          THEN << [feature |-> feature_name, value |-> value,
                   threshold |-> thresholds.high,
                   reason |-> thresholds.reason,
                   severity |-> "warning"] >> \o rest
          ELSE rest

_generate_reasons(features, is_anomaly) ==
  IF ~is_anomaly
  THEN << [reason |-> "Build metrics within normal parameters",
           severity |-> "info"] >>
  ELSE LET reasons == ThresholdReasons(features, 1)
       IN IF reasons = <<>>
          THEN << [reason |-> "Unusual combination of build metrics",
                   severity |-> "warning"] >>
          ELSE reasons

Abs(x) == IF x < 0 THEN -x ELSE x

\* contributions.sort(key=z_score, reverse=True): stable, descending.
RECURSIVE InsertDesc(_, _)
InsertDesc(sorted, c) ==
  IF sorted = <<>> THEN <<c>>
  ELSE IF Head(sorted).z_score >= c.z_score
       THEN <<Head(sorted)>> \o InsertDesc(Tail(sorted), c)
       ELSE <<c>> \o sorted

RECURSIVE SortDesc(_)
SortDesc(cs) ==
  IF cs = <<>> THEN <<>>
  ELSE InsertDesc(SortDesc(SubSeq(cs, 1, Len(cs) - 1)), cs[Len(cs)])

\* _get_top_contributing_features
_get_top_contributing_features(stats, features) ==
  IF Get(stats, "feature_means", <<>>) = <<>> THEN <<>>
  ELSE LET contributions ==
             [i \in DOMAIN FEATURE_NAMES |->
                LET name == FEATURE_NAMES[i]
                    value == OrZero(Get(features, name, 0))
                    mean == Get(stats["feature_means"], name, 0)
                    std == Get(stats["feature_stds"], name, 1)
                    z_score == IF std > 0
                               THEN (Abs(value - mean) * 100) \div std
                               ELSE 0
                IN [feature |-> name, value |-> value, z_score |-> z_score,
                    deviation |-> IF z_score > 200 THEN "high" ELSE "normal"]]
       IN SubSeq(SortDesc(contributions), 1, 5)


\* A feature value that float() rejects (a non-numeric string).
BadValue == -3000000

\* float(value) raises for some feature of the dict.
VectorRaises(features) ==
  \E i \in DOMAIN FEATURE_NAMES : Get(features, FEATURE_NAMES[i], 0) = BadValue

\* Integer square root by bisection, for the standard deviations.
RECURSIVE ISqrtIn(_, _, _)
ISqrtIn(lo, hi, v) ==
  IF lo >= hi THEN lo
  ELSE LET mid == (lo + hi + 1) \div 2
       IN IF mid * mid <= v THEN ISqrtIn(mid, hi, v)
          ELSE ISqrtIn(lo, mid - 1, v)

ISqrt(v) == ISqrtIn(0, 2000, v)

RECURSIVE SumSeq(_)
SumSeq(xs) == IF xs = <<>> THEN 0 ELSE Head(xs) + SumSeq(Tail(xs))

\* The column col of the frame X, as a sequence of numbers.
Column(X, col) == [r \in DOMAIN X |-> X[r][col]]

\* X[col].mean()
ColMean(X, col) == SumSeq(Column(X, col)) \div Len(X)

\* Sum of squared deviations of a column.
ColSS(X, col) ==
  LET m == ColMean(X, col)
  IN SumSeq([r \in DOMAIN X |-> (X[r][col] - m) * (X[r][col] - m)])

\* X[col].std(): pandas sample deviation, NaN on a single row.
ColStd(X, col) ==
  IF Len(X) < 2 THEN NaN ELSE ISqrt(ColSS(X, col) \div (Len(X) - 1))

NoneObj == [kind |-> "None"]

\* StandardScaler(): a new scaler, not fitted.
StandardScaler(run) ==
  [kind |-> "StandardScaler", run |-> run, fitted |-> FALSE,
   cols |-> <<>>, mean_ |-> <<>>, scale_ |-> <<>>]

\* scaler.fit(X): per-column mean and population deviation; a zero
\* deviation scales by 1.
ScalerFit(sc, X, cols) ==
  [sc EXCEPT !.fitted = TRUE,
             !.cols = cols,
             !.mean_ = [i \in DOMAIN cols |-> ColMean(X, cols[i])],
             !.scale_ = [i \in DOMAIN cols |->
                           LET sd == ISqrt(ColSS(X, cols[i]) \div Len(X))
                           IN IF sd = 0 THEN 1 ELSE sd]]

\* scaler.transform(vector)
ScalerTransform(sc, vec) ==
  [i \in DOMAIN vec |-> (vec[i] - sc.mean_[i]) \div sc.scale_[i]]

\* scaler.transform raises: no scaler, not fitted, or another feature count.
TransformRaises(sc, vec) ==
  \/ sc.kind = "None"
  \/ ~sc.fitted
  \/ Len(sc.cols) # Len(vec)

\* IsolationForest(...): a new forest, not fitted.
IsolationForest(run) ==
  [kind |-> "IsolationForest", run |-> run, fitted |-> FALSE, X_fit |-> <<>>]

\* model.fit(X_scaled)
ForestFit(forest, X_scaled) ==
  [forest EXCEPT !.fitted = TRUE, !.X_fit = X_scaled]

\* L1 distance of two scaled vectors.
Dist(x, y) == SumSeq([i \in DOMAIN x |-> Abs(x[i] - y[i])])

RECURSIVE MinDist(_, _, _)
MinDist(rows, x, i) ==
  IF i = Len(rows) THEN Dist(rows[i], x)
  ELSE Min(Dist(rows[i], x), MinDist(rows, x, i + 1))

\* model.decision_function(X_scaled): the library's score, stood in for by
\* a deterministic function of the fitted forest and the scaled vector that
\* is positive near the training rows and negative far from them.
decision_function(forest, x_scaled) ==
  Max(-50, 10 - 5 * MinDist(forest.X_fit, x_scaled, 1))

\* model.predict(X_scaled): -1 where the decision function is negative.
forest_predict(forest, x_scaled) ==
  IF decision_function(forest, x_scaled) < 0 THEN -1 ELSE 1

\* The forest raises: no forest, not fitted, or another feature count.
ForestRaises(forest, x_scaled) ==
  \/ forest.kind = "None"
  \/ ~forest.fitted
  \/ forest.X_fit = <<>>
  \/ Len(forest.X_fit[1]) # Len(x_scaled)

\* The body of predict() after the is_trained check, on the scaler, the
\* forest read for predict(), the forest read for decision_function() and
\* the training_stats it reads.
PredictWith(sc, forest_p, forest_d, stats, features) ==
  LET build_id == Get(features, "build_id", "unknown")
      feature_vector == _extract_feature_vector(features)
      X_scaled == ScalerTransform(sc, feature_vector)
      prediction == forest_predict(forest_p, X_scaled)
      raw_score == decision_function(forest_d, X_scaled)
      confidence == _score_to_confidence(raw_score)
      override_reasons == _check_security_rules(features)
      security_override == Len(override_reasons) > 0
      is_anomaly == IF security_override THEN TRUE ELSE prediction = -1
      score_float == IF security_override /\ raw_score > 0
                     THEN -5 ELSE raw_score
      reasons == _generate_reasons(features, is_anomaly)
  IN [build_id |-> build_id,
      is_anomaly |-> is_anomaly,
      anomaly_score |-> score_float,
      prediction |-> prediction,
      confidence |-> confidence,
      anomaly_reasons |-> IF security_override
                          THEN override_reasons \o reasons ELSE reasons,
      top_contributing_features |->
          _get_top_contributing_features(stats, features),
      model_version |-> "1.0.0"]

\* predict() raises instead of returning a result.
PredictRaises(trained, sc, forest_p, forest_d, features) ==
  \/ ~trained
  \/ VectorRaises(features)
  \/ TransformRaises(sc, _extract_feature_vector(features))
  \/ ForestRaises(forest_p,
                  ScalerTransform(sc, _extract_feature_vector(features)))
  \/ ForestRaises(forest_d,
                  ScalerTransform(sc, _extract_feature_vector(features)))


\* Number of train() calls in one behaviour.
MaxTrainings == 2

\* Number of predict() calls in one behaviour.
MaxPredicts == 2

\* A build's feature row: duration, suspicious patterns, external IPs; the
\* other features at a common routine value.
Row(d, s, ip) ==
  [n \in FeatureSet |->
     CASE n = "duration_seconds" -> d
       [] n = "suspicious_pattern_count" -> s
       [] n = "external_ip_count" -> ip
       [] n = "log_line_count" -> 100
       [] OTHER -> 0]

WithKey(dict, key, value) ==
  [k \in DOMAIN dict \cup {key} |-> IF k = key THEN value ELSE dict[k]]

\* Training data: frames read from a CSV or handed to train() directly.
FrameNormal == << Row(180, 0, 0), Row(200, 0, 0) >>

FrameSuspicious == << Row(1500, 1, 2), Row(1300, 1, 2) >>

FrameLabelled ==
  << WithKey(Row(180, 0, 0), "label", "normal"),
     WithKey(Row(1500, 3, 2), "label", "cryptomining"),
     WithKey(Row(200, 0, 0), "label", "normal") >>

FrameNoNormal == << WithKey(Row(1500, 3, 2), "label", "cryptomining") >>

CsvFrames == {FrameNormal, FrameLabelled, FrameNoNormal}

UploadFrames == {FrameSuspicious, FrameLabelled}

\* Feature dicts handed to predict().
FeatNormal == WithKey(Row(180, 0, 0), "build_id", "b-normal")

FeatSuspicious == WithKey(Row(1500, 1, 2), "build_id", "b-miner")

FeatSparse ==
  [k \in {"build_id", "suspicious_pattern_count", "external_ip_count"} |->
     CASE k = "build_id" -> "b-sparse"
       [] k = "suspicious_pattern_count" -> 2
       [] k = "external_ip_count" -> None]

FeatBadType == WithKey(WithKey(Row(180, 0, 0), "error_count", BadValue),
                       "build_id", "b-badtype")

\* Another routine build, of the duration of the second normal row.
FeatRoutine == WithKey(Row(200, 0, 0), "build_id", "b-routine")

FeatureDicts ==
  {FeatNormal, FeatRoutine, FeatSuspicious, FeatSparse, FeatBadType}

\* data.columns
Columns(data) == IF data = <<>> THEN FeatureSet ELSE DOMAIN data[1]

\* data[data['label'] == 'normal']
RECURSIVE NormalRows(_)
NormalRows(data) ==
  IF data = <<>> THEN <<>>
  ELSE IF Head(data)["label"] = "normal"
       THEN <<Head(data)>> \o NormalRows(Tail(data))
       ELSE NormalRows(Tail(data))

\* train_from_csv: the frame handed on to train().
CsvTrainingData(data) ==
  IF "label" \in Columns(data) THEN NormalRows(data) ELSE data

\* available_cols of train(): the feature columns present in the frame.
RECURSIVE AvailableFrom(_, _)
AvailableFrom(cols, i) ==
  IF i > Len(FEATURE_NAMES) THEN <<>>
  ELSE IF FEATURE_NAMES[i] \in cols
       THEN <<FEATURE_NAMES[i]>> \o AvailableFrom(cols, i + 1)
       ELSE AvailableFrom(cols, i + 1)

available_cols(data) == AvailableFrom(Columns(data), 1)

\* X_scaled of train(): the training rows after scaler.fit_transform.
FitTransform(sc, X, cols) ==
  [r \in DOMAIN X |->
     ScalerTransform(sc, [i \in DOMAIN cols |-> X[r][cols[i]]])]

\* The predictions == -1 count of train().
CountAnomalies(forest, X_scaled) ==
  Cardinality({r \in DOMAIN X_scaled :
                 forest_predict(forest, X_scaled[r]) = -1})

\* training_stats as train() fills it (the score mean and deviation and the
\* anomaly ratio are derived from the same predictions and left out).
TrainingStats(forest, X, X_scaled, cols) ==
  [k \in {"n_samples", "n_features", "n_anomalies_detected",
          "feature_means", "feature_stds"} |->
     CASE k = "n_samples" -> Len(X)
       [] k = "n_features" -> Len(cols)
       [] k = "n_anomalies_detected" -> CountAnomalies(forest, X_scaled)
       [] k = "feature_means" ->
            [c \in {cols[i] : i \in DOMAIN cols} |-> ColMean(X, c)]
       [] k = "feature_stds" ->
            [c \in {cols[i] : i \in DOMAIN cols} |-> ColStd(X, c)]]


Absent == [kind |-> "absent"]

Partial == [kind |-> "partial"]

NoResult == [kind |-> "none"]

Instance == [model |-> model, scaler |-> scaler, is_trained |-> is_trained,
             training_stats |-> training_stats]

\* A process that starts with nothing at MODEL_PATH: __init__ leaves the
\* instance empty and _load_model finds no files.
InitModel ==
  /\ model = NoneObj
  /\ scaler = NoneObj
  /\ is_trained = FALSE
  /\ training_stats = <<>>
  /\ model_file = Absent
  /\ scaler_file = Absent
  /\ meta_file = Absent
  /\ t_pc = "idle"
  /\ t_X = <<>>
  /\ t_cols = <<>>
  /\ t_X_scaled = <<>>
  /\ ntrain = 0
  /\ p_pc = "idle"
  /\ p_features = <<>>
  /\ p_scaler = NoneObj
  /\ p_forest_p = NoneObj
  /\ p_forest_d = NoneObj
  /\ npredict = 0
  /\ result = NoResult
  /\ saved = NoneObj
  /\ fresh = FALSE

\* train(data) is entered: the columns and the rows are taken.
TrainEnter(data) ==
  /\ t_pc = "idle"
  /\ ntrain < MaxTrainings
  /\ ntrain' = ntrain + 1
  /\ t_cols' = available_cols(data)
  /\ t_X' = data
  /\ t_X_scaled' = <<>>
  /\ t_pc' = "new_scaler"
  /\ fresh' = FALSE
  /\ UNCHANGED <<notModelVars, instVars, diskVars, predictVars, saved>>

\* train_from_csv(csv_path): POST /model/train, start-up training.
TrainFromCsv == \E data \in CsvFrames : TrainEnter(CsvTrainingData(data))

\* train(df): POST /model/upload, POST /model/retrain-from-normal.
TrainFromFrame == \E data \in UploadFrames : TrainEnter(data)

\* self.scaler = StandardScaler()
TrainNewScaler ==
  /\ t_pc = "new_scaler"
  /\ scaler' = StandardScaler(ntrain)
  /\ t_pc' = "fit_scaler"
  /\ UNCHANGED <<notModelVars, model, is_trained, training_stats, diskVars, t_X, t_cols,
                 t_X_scaled, ntrain, predictVars, saved, fresh>>

\* X_scaled = self.scaler.fit_transform(X); raises on an empty frame.
TrainFitScaler ==
  /\ t_pc = "fit_scaler"
  /\ IF t_X = <<>> \/ t_cols = <<>>
     THEN /\ t_pc' = "idle"
          /\ UNCHANGED <<scaler, t_X_scaled>>
     ELSE /\ scaler' = ScalerFit(scaler, t_X, t_cols)
          /\ t_X_scaled' = FitTransform(scaler', t_X, t_cols)
          /\ t_pc' = "new_model"
  /\ UNCHANGED <<notModelVars, model, is_trained, training_stats, diskVars, t_X, t_cols,
                 ntrain, predictVars, saved, fresh>>

\* self.model = IsolationForest(...)
TrainNewModel ==
  /\ t_pc = "new_model"
  /\ model' = IsolationForest(ntrain)
  /\ t_pc' = "fit_model"
  /\ UNCHANGED <<notModelVars, scaler, is_trained, training_stats, diskVars, t_X, t_cols,
                 t_X_scaled, ntrain, predictVars, saved, fresh>>

\* self.model.fit(X_scaled)
TrainFitModel ==
  /\ t_pc = "fit_model"
  /\ model' = ForestFit(model, t_X_scaled)
  /\ t_pc' = "set_trained"
  /\ UNCHANGED <<notModelVars, scaler, is_trained, training_stats, diskVars, t_X, t_cols,
                 t_X_scaled, ntrain, predictVars, saved, fresh>>

\* self.is_trained = True
TrainSetTrained ==
  /\ t_pc = "set_trained"
  /\ is_trained' = TRUE
  /\ t_pc' = "stats"
  /\ UNCHANGED <<notModelVars, model, scaler, training_stats, diskVars, t_X, t_cols,
                 t_X_scaled, ntrain, predictVars, saved, fresh>>

\* self.training_stats = {...}
TrainStats ==
  /\ t_pc = "stats"
  /\ training_stats' = TrainingStats(model, t_X, t_X_scaled, t_cols)
  /\ t_pc' = "open_model_file"
  /\ UNCHANGED <<notModelVars, model, scaler, is_trained, diskVars, t_X, t_cols,
                 t_X_scaled, ntrain, predictVars, saved, fresh>>

\* save_model, joblib.dump(self.model, model_path): the file is opened for
\* writing (truncated), then the pickle is written.
SaveOpenModel ==
  /\ t_pc = "open_model_file"
  /\ model_file' = Partial
  /\ t_pc' = "write_model_file"
  /\ UNCHANGED <<notModelVars, instVars, scaler_file, meta_file, t_X, t_cols, t_X_scaled,
                 ntrain, predictVars, saved, fresh>>

SaveWriteModel ==
  /\ t_pc = "write_model_file"
  /\ model_file' = model
  /\ t_pc' = "open_scaler_file"
  /\ UNCHANGED <<notModelVars, instVars, scaler_file, meta_file, t_X, t_cols, t_X_scaled,
                 ntrain, predictVars, saved, fresh>>

\* joblib.dump(self.scaler, scaler_path)
SaveOpenScaler ==
  /\ t_pc = "open_scaler_file"
  /\ scaler_file' = Partial
  /\ t_pc' = "write_scaler_file"
  /\ UNCHANGED <<notModelVars, instVars, model_file, meta_file, t_X, t_cols, t_X_scaled,
                 ntrain, predictVars, saved, fresh>>

SaveWriteScaler ==
  /\ t_pc = "write_scaler_file"
  /\ scaler_file' = scaler
  /\ t_pc' = "open_meta_file"
  /\ UNCHANGED <<notModelVars, instVars, model_file, meta_file, t_X, t_cols, t_X_scaled,
                 ntrain, predictVars, saved, fresh>>

\* with open(meta_path, 'w') as f: json.dump({...}, f)
SaveOpenMeta ==
  /\ t_pc = "open_meta_file"
  /\ meta_file' = Partial
  /\ t_pc' = "write_meta_file"
  /\ UNCHANGED <<notModelVars, instVars, model_file, scaler_file, t_X, t_cols, t_X_scaled,
                 ntrain, predictVars, saved, fresh>>

\* The metadata is written; save_model returns True and train() returns.
SaveWriteMeta ==
  /\ t_pc = "write_meta_file"
  /\ meta_file' = [kind |-> "meta", run |-> ntrain, version |-> "1.0.0",
                   feature_names |-> FEATURE_NAMES,
                   training_stats |-> training_stats]
  /\ t_pc' = "idle"
  /\ saved' = Instance
  /\ UNCHANGED <<notModelVars, instVars, model_file, scaler_file, t_X, t_cols, t_X_scaled,
                 ntrain, predictVars, fresh>>


\* The outcome of a predict() call that raised.
Raised(features) == [kind |-> "raised", features |-> features]

PredictLocalsReset ==
  /\ p_pc' = "idle"
  /\ p_features' = <<>>
  /\ p_scaler' = NoneObj
  /\ p_forest_p' = NoneObj
  /\ p_forest_d' = NoneObj

\* predict(features) is entered: the is_trained check and the feature
\* vector.
PredictEnter ==
  \E features \in FeatureDicts :
    /\ p_pc = "idle"
    /\ npredict < MaxPredicts
    /\ npredict' = npredict + 1
    /\ IF ~is_trained \/ VectorRaises(features)
       THEN /\ result' = Raised(features)
            /\ UNCHANGED <<p_pc, p_features>>
       ELSE /\ p_pc' = "transform"
            /\ p_features' = features
            /\ result' = NoResult
    /\ UNCHANGED <<notModelVars, instVars, diskVars, trainVars, p_scaler, p_forest_p,
                   p_forest_d, saved, fresh>>

\* X_scaled = self.scaler.transform(X)
PredictTransform ==
  /\ p_pc = "transform"
  /\ IF TransformRaises(scaler, _extract_feature_vector(p_features))
     THEN /\ result' = Raised(p_features)
          /\ PredictLocalsReset
     ELSE /\ p_scaler' = scaler
          /\ p_pc' = "forest_predict"
          /\ UNCHANGED <<p_features, p_forest_p, p_forest_d, result>>
  /\ UNCHANGED <<notModelVars, instVars, diskVars, trainVars, npredict, saved, fresh>>

\* prediction = self.model.predict(X_scaled)[0]
PredictForest ==
  /\ p_pc = "forest_predict"
  /\ IF ForestRaises(model, ScalerTransform(p_scaler,
                                _extract_feature_vector(p_features)))
     THEN /\ result' = Raised(p_features)
          /\ PredictLocalsReset
     ELSE /\ p_forest_p' = model
          /\ p_pc' = "decision_function"
          /\ UNCHANGED <<p_features, p_scaler, p_forest_d, result>>
  /\ UNCHANGED <<notModelVars, instVars, diskVars, trainVars, npredict, saved, fresh>>

\* raw_score = self.model.decision_function(X_scaled)[0]
PredictDecision ==
  /\ p_pc = "decision_function"
  /\ IF ForestRaises(model, ScalerTransform(p_scaler,
                                _extract_feature_vector(p_features)))
     THEN /\ result' = Raised(p_features)
          /\ PredictLocalsReset
     ELSE /\ p_forest_d' = model
          /\ p_pc' = "explain"
          /\ UNCHANGED <<p_features, p_scaler, p_forest_p, result>>
  /\ UNCHANGED <<notModelVars, instVars, diskVars, trainVars, npredict, saved, fresh>>

\* The rules, the reasons, the top features (which read training_stats)
\* and the returned AnomalyResult; the runs the scaler and the forest came
\* from are kept with it.
PredictReturn ==
  /\ p_pc = "explain"
  /\ result' = [kind |-> "result",
                features |-> p_features,
                value |-> PredictWith(p_scaler, p_forest_p, p_forest_d,
                                      training_stats, p_features),
                scaler_run |-> p_scaler.run,
                predict_run |-> p_forest_p.run,
                decision_run |-> p_forest_d.run]
  /\ PredictLocalsReset
  /\ UNCHANGED <<notModelVars, instVars, diskVars, trainVars, npredict, saved, fresh>>

\* predict() run on an instance in one piece: the result or the raise.
predict(inst, features) ==
  IF PredictRaises(inst.is_trained, inst.scaler, inst.model, inst.model,
                   features)
  THEN [kind |-> "raised"]
  ELSE [kind |-> "result",
        value |-> PredictWith(inst.scaler, inst.model, inst.model,
                              inst.training_stats, features)]

\* _load_model, first joblib.load: the forest, if both files exist and the
\* forest file is whole.
LoadedModel ==
  IF model_file.kind \notin {"absent", "partial"}
     /\ scaler_file.kind # "absent"
  THEN model_file ELSE NoneObj

\* _load_model, second joblib.load: reached only after the first.
LoadedScaler ==
  IF LoadedModel # NoneObj /\ scaler_file.kind # "partial"
  THEN scaler_file ELSE NoneObj

\* The process dies at any point and is started again: __init__ builds an
\* empty instance and _load_model reads the files found at MODEL_PATH.
Restart ==
  /\ model' = LoadedModel
  /\ scaler' = LoadedScaler
  /\ is_trained' = (LoadedScaler # NoneObj)
  /\ training_stats' = <<>>
  /\ t_pc' = "idle"
  /\ t_X' = <<>>
  /\ t_cols' = <<>>
  /\ t_X_scaled' = <<>>
  /\ PredictLocalsReset
  /\ result' = NoResult
  /\ fresh' = /\ t_pc = "idle"
              /\ saved # NoneObj
              /\ model_file = saved.model
              /\ scaler_file = saved.scaler
              /\ meta_file.kind = "meta"
  /\ UNCHANGED <<notModelVars, diskVars, ntrain, npredict, saved>>

NextModel ==
  \/ TrainFromCsv
  \/ TrainFromFrame
  \/ TrainNewScaler
  \/ TrainFitScaler
  \/ TrainNewModel
  \/ TrainFitModel
  \/ TrainSetTrained
  \/ TrainStats
  \/ SaveOpenModel
  \/ SaveWriteModel
  \/ SaveOpenScaler
  \/ SaveWriteScaler
  \/ SaveOpenMeta
  \/ SaveWriteMeta
  \/ PredictEnter
  \/ PredictTransform
  \/ PredictForest
  \/ PredictDecision
  \/ PredictReturn
  \/ Restart


(***************************************************************************)
(* Feature extraction (services/log-parser/src/feature_extractor.py)       *)
(***************************************************************************)

\* A dict with no keys.
EmptyDict == <<>>

\* Pieces that one of SUSPICIOUS_PATTERNS matches, that contain one of
\* ERROR_KEYWORDS, and that contain one of WARNING_KEYWORDS.
SuspiciousTokens == {"xmrig", "mkfifo"}

ErrorTokens == {"error", "FAILED"}

WarningTokens == {"WARN", "deprecated"}

\* A payload value of the wrong Python type: an int where the log text is
\* expected.
WrongTypeInt == [pytype |-> "int"]

\* The log text of a payload: its lines, as raw_logs.split('\n') gives them.
LogText(lines) == [pytype |-> "str", lines |-> lines]

\* line.strip() is empty (the payloads hold no whitespace-only line).
IsBlank(line) == line = <<"">>

\* parse_logs: every non-blank line is parsed with its index as log_id; the
\* parser afterwards and the template_id of every parsed line.
RECURSIVE parse_logs(_, _, _)
parse_logs(dr, log_lines, i) ==
  IF i > Len(log_lines) THEN [dr |-> dr, results |-> <<>>]
  ELSE IF IsBlank(log_lines[i]) THEN parse_logs(dr, log_lines, i + 1)
  ELSE LET r == parse(dr, log_lines[i], TRUE)
           rest == parse_logs([root |-> r.root,
                               cluster_objs |-> r.cluster_objs,
                               clusters |-> r.clusters], log_lines, i + 1)
       IN [dr |-> rest.dr,
           results |-> <<[line_id |-> i - 1, template_id |-> r.template_id]>>
                       \o rest.results]

\* Number of pieces of the line that are in the set.
RECURSIVE CountPieces(_, _)
CountPieces(line, tokens) ==
  IF line = <<>> THEN 0
  ELSE (IF Head(line) \in tokens THEN 1 ELSE 0)
       + CountPieces(Tail(line), tokens)

\* _count_keywords: the lines that contain a keyword.
_count_keywords(lines, tokens) ==
  Cardinality({i \in DOMAIN lines : CountPieces(lines[i], tokens) > 0})

\* _count_suspicious_patterns: the pattern matches over the whole text.
_count_suspicious_patterns(lines) ==
  SumSeq([i \in DOMAIN lines |-> CountPieces(lines[i], SuspiciousTokens)])

\* The entries of TRUSTED_DOMAINS that a URL here can end with.
TRUSTED_DOMAINS ==
  { <<"github", ".", "com">>, <<"pypi", ".", "org">>, <<"localhost">> }

\* str.lower() of a chunk
Lower(chunk) == IF chunk = "GitHub" THEN "github" ELSE chunk

\* text.split(sep)[0]: the text before the first sep.
RECURSIVE SplitFirst(_, _)
SplitFirst(text, sep) ==
  IF text = <<>> \/ Head(text) = sep THEN <<>>
  ELSE <<Head(text)>> \o SplitFirst(Tail(text), sep)

\* text.endswith(suffix)
EndsWith(text, suffix) ==
  /\ Len(suffix) <= Len(text)
  /\ SubSeq(text, Len(text) - Len(suffix) + 1, Len(text)) = suffix

\* url.split('/')[0].lower(), then split(':')[0]
UrlDomain(url) ==
  SplitFirst([i \in DOMAIN SplitFirst(url, "/") |->
                Lower(SplitFirst(url, "/")[i])], ":")

\* any(domain.endswith(trusted) for trusted in self.TRUSTED_DOMAINS)
is_trusted(domain) ==
  \E trusted \in TRUSTED_DOMAINS : EndsWith(domain, trusted)

\* URL_PATTERN.findall(all_text): the captures of the URLs, in text order.
RECURSIVE LineUrls(_)
LineUrls(line) ==
  IF line = <<>> THEN <<>>
  ELSE (IF Head(line) \in UrlPieces THEN <<UrlCaptured(Head(line))>>
        ELSE <<>>) \o LineUrls(Tail(line))

RECURSIVE AllUrls(_)
AllUrls(lines) ==
  IF lines = <<>> THEN <<>>
  ELSE LineUrls(Head(lines)) \o AllUrls(Tail(lines))

\* untrusted_urls: the URLs whose domain is not trusted.
untrusted_urls(lines) ==
  SelectSeq(AllUrls(lines), LAMBDA url : ~is_trusted(UrlDomain(url)))

\* _calculate_entropy, in bits: 0 for no line or a single template, 1 for
\* two lines of two templates (the payloads hold at most two lines).
_calculate_entropy(parse_results) ==
  IF Cardinality({parse_results[i].template_id : i \in DOMAIN parse_results})
     <= 1
  THEN 0 ELSE 1

\* _calculate_duration: 0 when a timestamp is missing, empty or not
\* parseable, else the difference in seconds.
_calculate_duration(start_str, end_str) ==
  IF start_str \in {None, BadValue} \/ end_str \in {None, BadValue}
  THEN 0 ELSE end_str - start_str

\* The log_lines of the steps, one after the other.
RECURSIVE StepLines(_)
StepLines(steps) ==
  IF steps = <<>> THEN <<>>
  ELSE Get(Head(steps), "log_lines", <<>>) \o StepLines(Tail(steps))

\* payload.get("_enriched", {}) or payload.get("_safeops_extended", {})
Enriched(payload) ==
  IF DOMAIN Get(payload, "_enriched", EmptyDict) # {}
  THEN payload["_enriched"]
  ELSE Get(payload, "_safeops_extended", EmptyDict)

\* The lines _extract_common works on: those of raw_logs, or those of the
\* steps when raw_logs has at most one line.
LogLines(raw_logs, steps) ==
  IF Len(raw_logs.lines) <= 1 THEN StepLines(steps) ELSE raw_logs.lines

\* The BuildFeatures that _extract_common returns.  The payload lines hold
\* no IP address or base64 command, and the characters of a line are not
\* carried by its pieces.
BuildFeatures(build_id, provider, duration, log_lines, steps, results) ==
  [k \in FeatureSet \cup {"build_id", "provider"} |->
     CASE k = "build_id" -> build_id
       [] k = "provider" -> provider
       [] k = "duration_seconds" -> duration
       [] k = "log_line_count" ->
            Cardinality({i \in DOMAIN log_lines : ~IsBlank(log_lines[i])})
       [] k = "error_count" -> _count_keywords(log_lines, ErrorTokens)
       [] k = "warning_count" -> _count_keywords(log_lines, WarningTokens)
       [] k = "step_count" -> Len(steps)
       [] k = "unique_templates" ->
            Cardinality({results[i].template_id :
                           i \in DOMAIN results})
       [] k = "template_entropy" -> _calculate_entropy(results)
       [] k = "suspicious_pattern_count" ->
            _count_suspicious_patterns(log_lines)
       [] k = "external_url_count" -> Len(untrusted_urls(log_lines))
       [] OTHER -> 0]

\* _extract_common after parse_logs returned parsed.
Extracted(parsed, build_id, provider, duration, log_lines, steps) ==
  [raised |-> FALSE,
   dr |-> parsed.dr,
   features |-> BuildFeatures(build_id, provider, duration, log_lines,
                              steps, parsed.results)]

\* _extract_common: the BuildFeatures of the build and the parser
\* afterwards; raised when raw_logs is not a string (raw_logs.split).
_extract_common(dr, build_id, provider, duration, raw_logs, steps) ==
  IF raw_logs.pytype # "str"
  THEN [raised |-> TRUE, dr |-> dr, features |-> EmptyDict]
  ELSE Extracted(parse_logs(dr, LogLines(raw_logs, steps), 1),
                 build_id, provider, duration,
                 LogLines(raw_logs, steps), steps)

\* The duration of a workflow run: the enriched duration_seconds, or the
\* time from run_started_at to updated_at.
WorkflowDuration(enriched, workflow) ==
  IF Get(enriched, "duration_seconds", 0) \notin {0, None}
  THEN enriched["duration_seconds"]
  ELSE _calculate_duration(Get(workflow, "run_started_at", None),
                           Get(workflow, "updated_at", None))

\* What the three formats pass on to _extract_common.
ExtractArgs(build_id, provider, duration, enriched) ==
  [build_id |-> build_id, provider |-> provider, duration |-> duration,
   raw_logs |-> Get(enriched, "raw_logs", LogText(<<>>)),
   steps |-> Get(enriched, "steps", <<>>)]

\* _extract_generic: the test / generic payload format.
_extract_generic(payload, meta) ==
  ExtractArgs(Get(Get(payload, "workflow_run", EmptyDict), "id",
                  Get(meta, "request_id", "unknown")),
              Get(meta, "provider", "unknown"),
              WorkflowDuration(Enriched(payload),
                               Get(payload, "workflow_run", EmptyDict)),
              Enriched(payload))

\* _extract_github: as the generic format, with provider "github".
_extract_github(payload, meta) ==
  ExtractArgs(Get(Get(payload, "workflow_run", EmptyDict), "id",
                  Get(meta, "request_id", "unknown")),
              "github",
              WorkflowDuration(Enriched(payload),
                               Get(payload, "workflow_run", EmptyDict)),
              Enriched(payload))

\* _extract_gitlab: the pipeline's own duration and id.
_extract_gitlab(payload, meta) ==
  ExtractArgs(Get(Get(payload, "object_attributes", EmptyDict), "id",
                  Get(meta, "request_id", "unknown")),
              "gitlab",
              Get(Get(payload, "object_attributes", EmptyDict),
                  "duration", 0),
              Enriched(payload))

\* The format's call of _extract_common.
ExtractCommon(dr, args) ==
  _extract_common(dr, args.build_id, args.provider, args.duration,
                  args.raw_logs, args.steps)

\* The format is chosen by the provider or by the payload's keys.
ExtractFormat(payload, meta) ==
  IF Get(meta, "provider", "unknown") = "github"
     \/ "workflow_run" \in DOMAIN payload
  THEN _extract_github(payload, meta)
  ELSE IF Get(meta, "provider", "unknown") = "gitlab"
          \/ "object_attributes" \in DOMAIN payload
  THEN _extract_gitlab(payload, meta)
  ELSE _extract_generic(payload, meta)

\* extract: the features of the payload and the parser afterwards.
extract(dr, payload) ==
  ExtractCommon(dr, ExtractFormat(payload, Get(payload, "_meta", EmptyDict)))

\* BuildFeatures.to_feature_vector: the fields in the order of the list
\* that the method returns.
to_feature_vector_swapped(features) ==
  << features.log_line_count, features.duration_seconds,
     features.char_density, features.error_count, features.warning_count,
     features.step_count, features.unique_templates,
     features.template_entropy, features.suspicious_pattern_count,
     features.external_ip_count, features.external_url_count,
     features.base64_pattern_count >>

to_feature_vector(features) ==
  << features.duration_seconds, features.log_line_count,
     features.char_density, features.error_count, features.warning_count,
     features.step_count, features.unique_templates,
     features.template_entropy, features.suspicious_pattern_count,
     features.external_ip_count, features.external_url_count,
     features.base64_pattern_count >>

\* BuildFeatures.feature_names: the list that the method returns.
feature_names ==
  << "duration_seconds", "log_line_count", "char_density", "error_count",
     "warning_count", "step_count", "unique_templates", "template_entropy",
     "suspicious_pattern_count", "external_ip_count", "external_url_count",
     "base64_pattern_count" >>

(***************************************************************************)
(* The queue workers: log-parser (main.py, queue_handler.py, database.py)  *)
(* and anomaly-detector (queue_handler.py, database.py).  The broker keeps *)
(* each queue in order, hands one message at a time to its consumer        *)
(* (prefetch_count=1) and puts a requeued message back at the head.        *)
(***************************************************************************)

\* Raw-log messages sent, feature messages injected from outside, and
\* worker crashes in one behaviour.
MaxRawLogs == 1

MaxInjected == 1

MaxCrashes == 1

\* basic_consume of the log-parser passes no auto_ack (the library's
\* default is off); the anomaly-detector passes auto_ack=False.
parser_auto_ack == FALSE

detector_auto_ack_on == TRUE

detector_auto_ack == FALSE

\* Message bodies, by what json.loads does with the bytes: it returns a
\* dict, returns a list, raises JSONDecodeError (b'not json'), or raises
\* UnicodeDecodeError (b'\x80', bytes that are not UTF-8).
JsonObject(value) == [json |-> "object", value |-> value]

BodyArray == [json |-> "array"]

BodyNotJson == [json |-> "JSONDecodeError"]

BodyNotUtf8 == [json |-> "UnicodeDecodeError"]

NoBody == [json |-> "none"]

\* Webhook payloads as the collector enqueues them.
PayloadRoutine ==
  [_meta |-> [request_id |-> "r-routine", mongo_id |-> "m-routine",
              provider |-> "test"],
   _enriched |-> [raw_logs |-> LogText(<< <<"INFO", "start">>,
                                          <<"WARN", "disk">> >>),
                  duration_seconds |-> 180]]

\* raw_logs is a number: raw_logs.split raises AttributeError in extract.
PayloadBadLogs ==
  [_meta |-> [request_id |-> "r-badlogs", mongo_id |-> "m-badlogs",
              provider |-> "test"],
   _enriched |-> [raw_logs |-> WrongTypeInt, duration_seconds |-> 180]]

RawBodies ==
  {JsonObject(PayloadRoutine), JsonObject(PayloadBadLogs),
   BodyArray, BodyNotJson, BodyNotUtf8}

\* Feature messages that do not come from the log-parser.
InjectedBodies ==
  {JsonObject([build_id |-> "b-badtype", features |-> FeatBadType]),
   BodyArray, BodyNotJson, BodyNotUtf8}

\* on_message: the exception raised by json.loads(body) or by
\* payload.get("_meta", {}).get("request_id", "unknown").
OnMessageRaises(body) ==
  IF body.json \in {"UnicodeDecodeError", "JSONDecodeError"} THEN body.json
  ELSE IF body.json = "array" THEN "AttributeError"
  ELSE "none"

\* on_message: what is told to the broker after the exception exc, or
\* after the callback returned success.
OnMessageSettlement(exc, success) ==
  IF exc = "none" THEN (IF success THEN "ack" ELSE "nack_requeue")
  ELSE IF exc = "JSONDecodeError" THEN "ack"
  ELSE IF exc \in {"AttributeError", "TypeError", "KeyError"} THEN "ack"
  ELSE "nack_requeue"

\* process_message: the exception raised by json.loads(body) or by
\* message.get.
ProcessMessageRaises(body) ==
  IF body.json \in {"UnicodeDecodeError", "JSONDecodeError"} THEN body.json
  ELSE IF body.json = "array" THEN "AttributeError"
  ELSE "none"

\* process_message with every exception acknowledged.
ProcessMessageSettlement_ack(exc) ==
  IF exc = "JSONDecodeError" THEN "nack_drop" ELSE "ack"

\* process_message: what is told to the broker after the exception exc, or
\* at the end of the try block.
ProcessMessageSettlement(exc) ==
  IF exc = "none" THEN "ack"
  ELSE IF exc = "JSONDecodeError" THEN "nack_drop"
  ELSE "nack_requeue"

\* The handling of the current delivery: the body, whether the broker
\* waits for a settlement, what was done so far, and what is about to be
\* told to the broker; for the anomaly-detector also the counters and the
\* number of result rows when the delivery arrived.
NoParsing ==
  [body |-> NoBody, unacked |-> FALSE, extracted |-> FALSE,
   features |-> EmptyDict, stored |-> FALSE, metered |-> FALSE,
   published |-> FALSE, outcome |-> "none"]

NoScoring ==
  [body |-> NoBody, unacked |-> FALSE, result |-> NoResult,
   raised |-> "none", inserted |-> FALSE, outcome |-> "none",
   before |-> <<0, 0, 0>>]

\* The CSV at TRAINING_DATA_PATH: missing, or one of the frames.
CsvFiles ==
  {[exists |-> FALSE, data |-> <<>>], [exists |-> TRUE, data |-> FrameLabelled]}

\* The sequences of at most n bodies.
RECURSIVE SeqsUpTo(_, _)
SeqsUpTo(bodies, n) ==
  IF n = 0 THEN {<<>>}
  ELSE LET shorter == SeqsUpTo(bodies, n - 1)
       IN shorter \cup {Append(q, b) : q \in shorter, b \in bodies}

\* reconnect_delay = 5 and max_delay = 60 of consumer_thread
initial_delay == 5

max_delay == 60

\* No request was answered yet.
NoResponse == [endpoint |-> "none"]

\* Both services before start, with the messages raw and feats waiting on
\* the queues and the rows in the anomaly_results table.
InitWorkers(raw, feats, rows) ==
  /\ raw_logs_queue = raw
  /\ features_queue = feats
  /\ nraw = Len(raw)
  /\ ninjected = Len(feats)
  /\ npublished = 0
  /\ raw_settled = 0
  /\ features_settled = 0
  /\ ncrash = 0
  /\ lp_pc = "start"
  /\ lp_h = NoParsing
  /\ mongo_connected = FALSE
  /\ pg_connected = FALSE
  /\ parsed_logs = <<>>
  /\ raw_processed = {}
  /\ build_metrics = <<>>
  /\ ad_pc = "start"
  /\ ad_h = NoScoring
  /\ anomaly_results = rows
  /\ clock = Len(rows)
  /\ processed_count = 0
  /\ anomaly_count = 0
  /\ api_calls = 0
  /\ api_response = NoResponse
  /\ backup_files = {}
  /\ broker_up = TRUE
  /\ ct_pc = "connect"
  /\ reconnect_delay = initial_delay
  /\ ad_channel = "None"
  /\ last_wait = 0
  /\ connected_since = FALSE
  /\ lp_proc = "start"
  /\ fx_pc = "idle"
  /\ fx_payload = EmptyDict
  /\ fx_message = EmptyDict
  /\ fx_count = 0
  /\ qp_pc = "idle"
  /\ qp_h = NoBody
  /\ qp_left = [all |-> FALSE, n |-> 0, processed |-> 0]

\* Both services before start, with an empty anomaly_results table.
InitQueues(raw, feats) == InitWorkers(raw, feats, <<>>)

\* Empty queues.
InitPipeline == InitQueues(<<>>, <<>>)

\* The collector has published up to MaxRawLogs webhook payloads to
\* raw_logs, and up to MaxInjected messages that do not come from the
\* log-parser wait on the features queue.
QueuesLoaded ==
  \E raw \in SeqsUpTo(RawBodies, MaxRawLogs),
     feats \in SeqsUpTo(InjectedBodies, MaxInjected) :
    InitQueues(raw, feats)

\* LogParserService.start: RabbitMQ, MongoDB and PostgreSQL connect.
ParserStart ==
  /\ lp_pc = "start"
  /\ mongo_connected' = TRUE
  /\ pg_connected' = TRUE
  /\ lp_pc' = "idle"
  /\ UNCHANGED <<lp_h, rawVars, featVars, ncrash, parserStores, drainVars,
                 detectorSide>>

\* LogParserService.start while MongoDB or PostgreSQL is not available: the
\* service continues without that store.
ParserStartDegraded ==
  \E m \in BOOLEAN, p \in BOOLEAN :
    /\ lp_pc = "start"
    /\ ~(m /\ p)
    /\ mongo_connected' = m
    /\ pg_connected' = p
    /\ lp_pc' = "idle"
    /\ UNCHANGED <<lp_h, rawVars, featVars, ncrash, parserStores, drainVars,
                   detectorSide>>

\* The broker delivers the head of raw_logs to on_message.
ParserReceive ==
  /\ lp_pc = "idle"
  /\ raw_logs_queue # <<>>
  /\ lp_h' = [NoParsing EXCEPT !.body = Head(raw_logs_queue),
                               !.unacked = ~parser_auto_ack]
  /\ raw_logs_queue' = Tail(raw_logs_queue)
  /\ lp_pc' = "on_message"
  /\ UNCHANGED <<nraw, raw_settled, mongo_connected, pg_connected, featVars,
                 ncrash, parserStores, drainVars, detectorSide>>

\* _process_message after extract() returned or raised: e is its outcome.
ParserExtracted(e) ==
  /\ root' = e.dr.root
  /\ cluster_objs' = e.dr.cluster_objs
  /\ clusters' = e.dr.clusters
  /\ IF e.raised
     THEN /\ lp_h' = [lp_h EXCEPT
                        !.outcome = OnMessageSettlement("none", FALSE)]
          /\ lp_pc' = "settle"
     ELSE /\ lp_h' = [lp_h EXCEPT !.extracted = TRUE,
                                  !.features = e.features]
          /\ lp_pc' = "store_parsed_log"

\* on_message up to the end of extract() in _process_message: the body is
\* decoded, the request id read and the features extracted (which parses
\* the log lines with the Drain singleton).  An exception decides what is
\* told to the broker.
ParserExtract ==
  /\ lp_pc = "on_message"
  /\ IF OnMessageRaises(lp_h.body) # "none"
     THEN /\ lp_h' = [lp_h EXCEPT
                        !.outcome =
                           OnMessageSettlement(OnMessageRaises(lp_h.body),
                                               FALSE)]
          /\ lp_pc' = "settle"
          /\ UNCHANGED <<root, cluster_objs, clusters>>
     ELSE ParserExtracted(extract(DrainState, lp_h.body.value))
  /\ UNCHANGED <<nparsed, last_result, returned, mongo_connected,
                 pg_connected, rawVars, featVars, ncrash, parserStores,
                 detectorSide>>

\* parser.get_all_templates(): the templates of the cluster index (fewer
\* than 50, the last 50 are all of them).
get_all_templates ==
  {[template_id |-> cluster_objs[clusters[k]].template_id,
    template |-> cluster_objs[clusters[k]].template_tokens,
    count |-> cluster_objs[clusters[k]].size] : k \in DOMAIN clusters}

\* store_parsed_log and mark_raw_log_processed, when MongoDB is connected.
ParserStoreParsed ==
  /\ lp_pc = "store_parsed_log"
  /\ LET meta == lp_h.body.value["_meta"]
     IN IF mongo_connected
        THEN /\ parsed_logs' =
                  Append(parsed_logs,
                         [raw_log_id |-> Get(meta, "mongo_id", "None"),
                          templates |-> get_all_templates,
                          event_ids |->
                            {t.template_id : t \in get_all_templates},
                          features |-> lp_h.features])
             /\ raw_processed' =
                  IF "mongo_id" \in DOMAIN meta
                  THEN raw_processed \cup {meta["mongo_id"]}
                  ELSE raw_processed
             /\ lp_h' = [lp_h EXCEPT !.stored = TRUE]
        ELSE UNCHANGED <<parsed_logs, raw_processed, lp_h>>
  /\ lp_pc' = "store_build_metrics"
  /\ UNCHANGED <<build_metrics, mongo_connected, pg_connected, rawVars,
                 featVars, ncrash, drainVars, detectorSide>>

\* MongoDB is down: insert_one and update_one raise, the store functions
\* log the error and return None / False.
ParserStoreParsedFails ==
  /\ lp_pc = "store_parsed_log"
  /\ mongo_connected
  /\ lp_pc' = "store_build_metrics"
  /\ UNCHANGED <<lp_h, parserStores, mongo_connected, pg_connected, rawVars,
                 featVars, ncrash, drainVars, detectorSide>>

\* store_build_metrics, when PostgreSQL is connected.
ParserStoreMetrics ==
  /\ lp_pc = "store_build_metrics"
  /\ IF pg_connected
     THEN /\ build_metrics' =
               Append(build_metrics,
                      [k \in {"build_id", "duration_seconds",
                              "log_line_count", "char_density",
                              "error_count", "warning_count"} |->
                         lp_h.features[k]])
          /\ lp_h' = [lp_h EXCEPT !.metered = TRUE]
     ELSE UNCHANGED <<build_metrics, lp_h>>
  /\ lp_pc' = "publish_features"
  /\ UNCHANGED <<parsed_logs, raw_processed, mongo_connected, pg_connected,
                 rawVars, featVars, ncrash, drainVars, detectorSide>>

\* PostgreSQL is down: the INSERT raises, store_build_metrics logs the
\* error and returns None.
ParserStoreMetricsFails ==
  /\ lp_pc = "store_build_metrics"
  /\ pg_connected
  /\ lp_pc' = "publish_features"
  /\ UNCHANGED <<lp_h, parserStores, mongo_connected, pg_connected, rawVars,
                 featVars, ncrash, drainVars, detectorSide>>

\* The features message of _process_message.
feature_message(features, meta) ==
  [_meta |-> [request_id |-> Get(meta, "request_id", "unknown"),
              mongo_id |-> Get(meta, "mongo_id", "None"),
              source |-> "log-parser"],
   features |-> features,
   feature_vector |-> to_feature_vector(features),
   feature_names |-> feature_names]

\* publish_features returns True: the message is on the features queue;
\* _process_message returns True.
ParserPublish ==
  /\ lp_pc = "publish_features"
  /\ features_queue' =
       Append(features_queue,
              JsonObject(feature_message(lp_h.features,
                                         lp_h.body.value["_meta"])))
  /\ npublished' = npublished + 1
  /\ lp_h' = [lp_h EXCEPT !.published = TRUE,
                          !.outcome = OnMessageSettlement("none", TRUE)]
  /\ lp_pc' = "settle"
  /\ UNCHANGED <<ninjected, features_settled, mongo_connected, pg_connected,
                 rawVars, ncrash, parserStores, drainVars, detectorSide>>

\* basic_publish raises: publish logs the error and returns False, and
\* _process_message goes on and returns True.
ParserPublishFails ==
  /\ lp_pc = "publish_features"
  /\ lp_h' = [lp_h EXCEPT !.outcome = OnMessageSettlement("none", TRUE)]
  /\ lp_pc' = "settle"
  /\ UNCHANGED <<featVars, mongo_connected, pg_connected, rawVars, ncrash,
                 parserStores, drainVars, detectorSide>>

\* basic_ack / basic_nack of on_message: a requeued message goes back to
\* the head of raw_logs, any other leaves the queue for good.
ParserSettle ==
  /\ lp_pc = "settle"
  /\ IF lp_h.outcome = "nack_requeue"
     THEN /\ raw_logs_queue' = IF lp_h.unacked
                               THEN <<lp_h.body>> \o raw_logs_queue
                               ELSE raw_logs_queue
          /\ UNCHANGED raw_settled
     ELSE /\ raw_settled' = raw_settled + 1
          /\ UNCHANGED raw_logs_queue
  /\ lp_pc' = "idle"
  /\ lp_h' = NoParsing
  /\ UNCHANGED <<nraw, mongo_connected, pg_connected, featVars, ncrash,
                 parserStores, drainVars, detectorSide>>

\* The log-parser process dies while it handles a delivery: the broker
\* requeues the unsettled delivery, and the process starts again with a
\* new Drain singleton.
ParserCrash ==
  /\ lp_pc \in {"on_message", "store_parsed_log", "store_build_metrics",
                "publish_features", "settle"}
  /\ ncrash < MaxCrashes
  /\ ncrash' = ncrash + 1
  /\ raw_logs_queue' = IF lp_h.unacked THEN <<lp_h.body>> \o raw_logs_queue
                       ELSE raw_logs_queue
  /\ lp_pc' = "start"
  /\ lp_h' = NoParsing
  /\ mongo_connected' = FALSE
  /\ pg_connected' = FALSE
  /\ root' = [p \in {<<>>} |-> DrainNode]
  /\ cluster_objs' = <<>>
  /\ clusters' = <<>>
  /\ UNCHANGED <<nraw, raw_settled, nparsed, last_result, returned, featVars,
                 parserStores, detectorSide>>

\* train(data) run in one piece as the call number run: the instance
\* afterwards, and whether fit_transform raised (an empty frame), which
\* leaves the new unfitted scaler in the instance.
train(inst, data, run) ==
  LET cols == available_cols(data)
      sc == ScalerFit(StandardScaler(run), data, cols)
      X_scaled == FitTransform(sc, data, cols)
      forest == ForestFit(IsolationForest(run), X_scaled)
  IN IF data = <<>> \/ cols = <<>>
     THEN [raised |-> TRUE, model |-> inst.model,
           scaler |-> StandardScaler(run), is_trained |-> inst.is_trained,
           training_stats |-> inst.training_stats]
     ELSE [raised |-> FALSE, model |-> forest, scaler |-> sc,
           is_trained |-> TRUE,
           training_stats |-> TrainingStats(forest, data, X_scaled, cols)]

\* _ensure_model_trained with the file csv at TRAINING_DATA_PATH: nothing
\* when the model is trained or the file is missing, else train_from_csv,
\* whose exception is logged and dropped.
_ensure_model_trained(csv) ==
  /\ is_trained \/ ~csv.exists \/ ntrain < MaxTrainings
  /\ IF is_trained \/ ~csv.exists
     THEN UNCHANGED <<instVars, diskVars, ntrain, saved, fresh>>
     ELSE LET t == train(Instance, CsvTrainingData(csv.data), ntrain + 1)
          IN /\ model' = t.model
             /\ scaler' = t.scaler
             /\ is_trained' = t.is_trained
             /\ training_stats' = t.training_stats
             /\ ntrain' = ntrain + 1
             /\ fresh' = FALSE
             /\ IF t.raised
                THEN UNCHANGED <<diskVars, saved>>
                ELSE /\ model_file' = t.model
                     /\ scaler_file' = t.scaler
                     /\ meta_file' =
                          [kind |-> "meta", run |-> ntrain + 1,
                           version |-> "1.0.0",
                           feature_names |-> FEATURE_NAMES,
                           training_stats |-> t.training_stats]
                     /\ saved' = [model |-> t.model, scaler |-> t.scaler,
                                  is_trained |-> TRUE,
                                  training_stats |-> t.training_stats]

\* start_consuming: the model is made ready before basic_consume.
DetectorStart ==
  \E csv \in CsvFiles :
    /\ ad_pc = "start"
    /\ _ensure_model_trained(csv)
    /\ ad_pc' = "idle"
    /\ UNCHANGED <<ad_h, processed_count, anomaly_count, anomaly_results, clock,
                   t_pc, t_X, t_cols, t_X_scaled, predictVars, featVars,
                   ncrash, parserSide>>

\* The broker delivers the head of the features queue to process_message.
DetectorReceive ==
  /\ ad_pc = "idle"
  /\ features_queue # <<>>
  /\ ad_h' = [NoScoring EXCEPT !.body = Head(features_queue),
                               !.unacked = ~detector_auto_ack,
                               !.before = <<processed_count, anomaly_count,
                                            Len(anomaly_results)>>]
  /\ features_queue' = Tail(features_queue)
  /\ ad_pc' = "score"
  /\ UNCHANGED <<ninjected, npublished, features_settled, processed_count,
                 anomaly_count, anomaly_results, clock, modelVars, ncrash,
                 parserSide>>

\* The instance after this step.
InstanceAfter ==
  [model |-> model', scaler |-> scaler', is_trained |-> is_trained',
   training_stats |-> training_stats']

\* process_message up to the end of predict(): the body is decoded, the
\* model made ready and the features scored.  An exception decides what is
\* told to the broker.
DetectorScore ==
  \E csv \in CsvFiles :
    /\ ad_pc = "score"
    /\ LET exc == ProcessMessageRaises(ad_h.body)
       IN IF exc # "none"
          THEN /\ ~csv.exists
               /\ ad_h' = [ad_h EXCEPT
                             !.raised = "json.loads",
                             !.outcome = ProcessMessageSettlement(exc)]
               /\ ad_pc' = "settle"
               /\ UNCHANGED <<instVars, diskVars, ntrain, saved, fresh>>
          ELSE LET message == ad_h.body.value
                   build_id == Get(message, "build_id", "unknown")
                   features == WithKey(Get(message, "features", EmptyDict),
                                       "build_id", build_id)
               IN /\ is_trained => ~csv.exists
                  /\ _ensure_model_trained(csv)
                  /\ LET r == predict(InstanceAfter, features)
                     IN IF r.kind = "raised"
                        THEN /\ ad_h' = [ad_h EXCEPT
                                  !.raised = "predict",
                                  !.outcome =
                                     ProcessMessageSettlement("Exception")]
                             /\ ad_pc' = "settle"
                        ELSE /\ ad_h' = [ad_h EXCEPT !.result = r.value]
                             /\ ad_pc' = "save"
    /\ UNCHANGED <<processed_count, anomaly_count, anomaly_results, clock, t_pc,
                   t_X, t_cols, t_X_scaled, predictVars, featVars, ncrash,
                   parserSide>>

\* Column values: SQL NULL, and a JSONB document.
SqlNull == [sql |-> "NULL"]

Jsonb(value) == [sql |-> "jsonb", value |-> value]

\* The time column of anomaly_results, which no INSERT names: its default
\* is the time of the insert.
DefaultNow(now) == now

\* The columns that the INSERT of save_anomaly_result names.
InsertedColumns ==
  {"build_id", "is_anomaly", "anomaly_score", "prediction", "confidence",
   "anomaly_reasons", "model_version"}

\* save_anomaly_result(result, raw_features): the table after the INSERT
\* at the time now.  The statement names no raw_features column, so the
\* new row holds NULL there; id is the serial number of the row.
save_anomaly_result(rows, res, raw_features, now) ==
  Append(rows,
         [k \in InsertedColumns \cup {"id", "created_at", "raw_features"} |->
            CASE k = "id" -> Len(rows) + 1
              [] k = "created_at" -> DefaultNow(now)
              [] k = "raw_features" -> SqlNull
              [] OTHER -> res[k]])

\* The features of a message as process_message passes them to predict
\* and to save_anomaly_result: the message's features with its build_id.
MessageFeatures(message) ==
  WithKey(Get(message, "features", EmptyDict), "build_id",
          Get(message, "build_id", "unknown"))

\* save_anomaly_result inserts and commits the row; the counters are
\* updated and the message is about to be acknowledged.
DetectorSave ==
  /\ ad_pc = "save"
  /\ anomaly_results' =
       save_anomaly_result(anomaly_results, ad_h.result,
                           MessageFeatures(ad_h.body.value), clock + 1)
  /\ clock' = clock + 1
  /\ processed_count' = processed_count + 1
  /\ anomaly_count' = IF ad_h.result.is_anomaly THEN anomaly_count + 1
                      ELSE anomaly_count
  /\ ad_h' = [ad_h EXCEPT !.inserted = TRUE,
                          !.outcome = ProcessMessageSettlement("none")]
  /\ ad_pc' = "settle"
  /\ UNCHANGED <<modelVars, featVars, ncrash, parserSide>>

\* save_anomaly_result raises (the database is down): the transaction is
\* rolled back and the exception reaches process_message.
DetectorSaveFails ==
  /\ ad_pc = "save"
  /\ ad_h' = [ad_h EXCEPT !.raised = "save_anomaly_result",
                          !.outcome = ProcessMessageSettlement("Exception")]
  /\ ad_pc' = "settle"
  /\ UNCHANGED <<processed_count, anomaly_count, anomaly_results, clock,
                 modelVars, featVars, ncrash, parserSide>>

\* basic_ack / basic_nack of process_message: a requeued message goes back
\* to the head of the features queue, any other leaves the queue for good.
DetectorSettle ==
  /\ ad_pc = "settle"
  /\ IF ad_h.outcome = "nack_requeue"
     THEN /\ features_queue' = IF ad_h.unacked
                               THEN <<ad_h.body>> \o features_queue
                               ELSE features_queue
          /\ UNCHANGED features_settled
     ELSE /\ features_settled' = features_settled + 1
          /\ UNCHANGED features_queue
  /\ ad_pc' = "idle"
  /\ ad_h' = NoScoring
  /\ UNCHANGED <<ninjected, npublished, processed_count, anomaly_count,
                 anomaly_results, clock, modelVars, ncrash, parserSide>>

\* The anomaly-detector process dies while it handles a delivery: the
\* broker requeues the unsettled delivery, and the process starts again
\* with zero counters and the model files found on disk.
DetectorCrash ==
  /\ ad_pc \in {"score", "save", "settle"}
  /\ ncrash < MaxCrashes
  /\ ncrash' = ncrash + 1
  /\ features_queue' = IF ad_h.unacked THEN <<ad_h.body>> \o features_queue
                       ELSE features_queue
  /\ ad_pc' = "start"
  /\ ad_h' = NoScoring
  /\ processed_count' = 0
  /\ anomaly_count' = 0
  /\ model' = LoadedModel
  /\ scaler' = LoadedScaler
  /\ is_trained' = (LoadedScaler # NoneObj)
  /\ training_stats' = <<>>
  /\ fresh' = /\ saved # NoneObj
              /\ model_file = saved.model
              /\ scaler_file = saved.scaler
              /\ meta_file.kind = "meta"
  /\ UNCHANGED <<anomaly_results, clock, diskVars, trainVars, predictVars, saved,
                 ninjected, npublished, features_settled, parserSide>>

\* SIGINT or SIGTERM reaches the log-parser: Python runs _signal_handler
\* in the main thread at once, whatever on_message was doing.  stop()
\* stops the consumer and closes the broker connection (the broker
\* requeues a delivery that was not settled), closes MongoDB and
\* PostgreSQL, and sys.exit(0) ends the process; the SystemExit is no
\* Exception, so no except clause of the handler in flight sees it.
ParserSignal ==
  /\ lp_pc # "exited"
  /\ raw_logs_queue' = IF lp_h.unacked THEN <<lp_h.body>> \o raw_logs_queue
                       ELSE raw_logs_queue
  /\ mongo_connected' = FALSE
  /\ pg_connected' = FALSE
  /\ lp_pc' = "exited"
  /\ UNCHANGED <<nraw, raw_settled, lp_h, parserStores, drainVars, featVars,
                 ncrash, detectorSide>>

\* SIGINT or SIGTERM reaches the anomaly-detector: signal_handler calls
\* handler.stop() (stop_consuming and connection.close(), after which the
\* broker requeues a delivery that was not settled) and sys.exit(0), which
\* ends the process with its daemon consumer thread wherever that is.
DetectorSignal ==
  /\ ad_pc # "exited"
  /\ features_queue' = IF ad_h.unacked THEN <<ad_h.body>> \o features_queue
                       ELSE features_queue
  /\ ad_pc' = "exited"
  /\ UNCHANGED <<ad_h, processed_count, anomaly_count, anomaly_results, clock,
                 modelVars, ninjected, npublished, features_settled, ncrash,
                 parserSide>>

ParserSteady ==
  \/ ParserStart
  \/ ParserReceive
  \/ ParserExtract
  \/ ParserStoreParsed
  \/ ParserStoreMetrics
  \/ ParserPublish
  \/ ParserSettle

DetectorSteady ==
  \/ DetectorStart
  \/ DetectorReceive
  \/ DetectorScore
  \/ DetectorSave
  \/ DetectorSettle

\* The positions of the workers.
ParserPositions ==
  {"start", "idle", "on_message", "store_parsed_log", "store_build_metrics",
   "publish_features", "settle"}

DetectorPositions == {"start", "idle", "score", "save", "settle"}

\* A worker process is scheduled: unless it waits on an empty queue, it
\* gets to its next position (every step of a worker changes its position,
\* and no other step does).
ParserAdvances ==
  /\ lp_pc # "idle" \/ raw_logs_queue # <<>>
  /\ lp_pc' \in ParserPositions

DetectorAdvances ==
  /\ ad_pc # "idle" \/ features_queue # <<>>
  /\ ad_pc' \in DetectorPositions

\* The workers while nothing fails: every store and the broker are up and
\* no process dies.
NextPipelineSteady ==
  \/ ParserSteady
  \/ DetectorSteady

\* The workers with stores and broker that can fail and processes that can
\* die.
NextPipeline ==
  \/ NextPipelineSteady
  \/ ParserStartDegraded
  \/ ParserStoreParsedFails
  \/ ParserStoreMetricsFails
  \/ ParserPublishFails
  \/ ParserCrash
  \/ DetectorSaveFails
  \/ DetectorCrash


(***************************************************************************)
(* The HTTP API of the anomaly-detector (api.py) and the queries of its    *)
(* database (database.py).  A request is handled in one step.              *)
(***************************************************************************)

\* Requests answered, and the reading of the clock, in one behaviour.
MaxApiCalls == 2

MaxClock == 4

\* data.get("min_samples", 100) and data.get("hours", 168)
DefaultMinSamples == 100

DefaultHours == 168

\* The values of min_samples and hours in the requests.
MinSamplesValues == {1, 2, DefaultMinSamples}

HoursValues == {2, DefaultHours}

\* A DrainParser that has parsed nothing.
NewDrainParser ==
  [root |-> [p \in {<<>>} |-> DrainNode], cluster_objs |-> <<>>,
   clusters |-> <<>>]

\* The features that the log-parser extracts from the routine payload, and
\* those of a like build of another duration.
RoutineFeatures == extract(NewDrainParser, PayloadRoutine).features

RoutineLasting(d) == WithKey(RoutineFeatures, "duration_seconds", d)

\* A row of anomaly_results written with raw_features by another writer
\* than this service (an import of historical builds).
SeededRow(id, build_id, features) ==
  [id |-> id, created_at |-> id, build_id |-> build_id,
   is_anomaly |-> FALSE, anomaly_score |-> 10, prediction |-> 1,
   confidence |-> 50, anomaly_reasons |-> <<>>, model_version |-> "1.0.0",
   raw_features |-> Jsonb(features)]

SeededRows ==
  << SeededRow(1, "b-old1", RoutineFeatures),
     SeededRow(2, "b-old2", RoutineLasting(200)) >>

\* The rows newest first (ORDER BY created_at DESC; created_at grows with
\* the position in the table).
RECURSIVE NewestFirst(_)
NewestFirst(rows) ==
  IF rows = <<>> THEN <<>>
  ELSE <<rows[Len(rows)]>> \o NewestFirst(SubSeq(rows, 1, Len(rows) - 1))

\* WHERE is_anomaly = FALSE AND raw_features IS NOT NULL
\*   AND created_at > NOW() - INTERVAL 'hours'
IsNormalInWindow(row, now, hours) ==
  /\ ~row.is_anomaly
  /\ row.raw_features # SqlNull
  /\ row.created_at > now - hours

\* One result of get_normal_builds_for_training: the raw_features with the
\* build_id and the label "normal".
TrainingRow(row) ==
  WithKey(WithKey(row.raw_features.value, "build_id", row.build_id),
          "label", "normal")

\* get_normal_builds_for_training(hours) at the time now.
RECURSIVE TrainingRows(_, _, _)
TrainingRows(rows, now, hours) ==
  IF rows = <<>> THEN <<>>
  ELSE (IF IsNormalInWindow(Head(rows), now, hours)
        THEN <<TrainingRow(Head(rows))>> ELSE <<>>)
       \o TrainingRows(Tail(rows), now, hours)

get_normal_builds_for_training(rows, now, hours) ==
  TrainingRows(NewestFirst(rows), now, hours)

\* if len(normal_builds) < min_samples
Insufficient_never(found, min_samples) == FALSE

Insufficient(found, min_samples) == found < min_samples

\* model.train(df) with the outcome t of train: the instance is replaced,
\* and save_model writes the three files unless fit_transform raised.
ModelTrain(t) ==
  /\ model' = t.model
  /\ scaler' = t.scaler
  /\ is_trained' = t.is_trained
  /\ training_stats' = t.training_stats
  /\ ntrain' = ntrain + 1
  /\ fresh' = FALSE
  /\ IF t.raised
     THEN UNCHANGED <<diskVars, saved>>
     ELSE /\ model_file' = t.model
          /\ scaler_file' = t.scaler
          /\ meta_file' = [kind |-> "meta", run |-> ntrain + 1,
                           version |-> "1.0.0",
                           feature_names |-> FEATURE_NAMES,
                           training_stats |-> t.training_stats]
          /\ saved' = [model |-> t.model, scaler |-> t.scaler,
                       is_trained |-> TRUE,
                       training_stats |-> t.training_stats]

\* The answer of POST /model/retrain-from-normal.
RetrainResponse(status, found, min_samples, hours) ==
  [endpoint |-> "retrain-from-normal", status |-> status, found |-> found,
   min_samples |-> min_samples, hours |-> hours]

\* retrain_from_normal_builds after model.train(df) returned or raised.
RetrainTrained(t, found, min_samples, hours) ==
  /\ ModelTrain(t)
  /\ api_response' = RetrainResponse(IF t.raised THEN 500 ELSE 200,
                                     found, min_samples, hours)

\* retrain_from_normal_builds after the query returned normal_builds.
RetrainWith(normal_builds, min_samples, hours) ==
  IF Insufficient(Len(normal_builds), min_samples)
  THEN /\ api_response' =
            RetrainResponse(400, Len(normal_builds), min_samples, hours)
       /\ UNCHANGED <<instVars, diskVars, ntrain, saved, fresh>>
  ELSE /\ ntrain < MaxTrainings
       /\ RetrainTrained(train(Instance, normal_builds, ntrain + 1),
                         Len(normal_builds), min_samples, hours)

\* POST /model/retrain-from-normal with min_samples and hours in the body.
RetrainFromNormal ==
  \E min_samples \in MinSamplesValues, hours \in HoursValues :
    /\ api_calls < MaxApiCalls
    /\ api_calls' = api_calls + 1
    /\ RetrainWith(get_normal_builds_for_training(anomaly_results, clock,
                                                  hours),
                   min_samples, hours)
    /\ UNCHANGED <<t_pc, t_X, t_cols, t_X_scaled, predictVars,
                   anomaly_results, clock, detectorVars, featVars, ncrash,
                   rawVars, parserVars, parserStores, drainVars,
                   reconnectVars, extractVars, backup_files, queueApiVars>>

\* The requests of POST /predict: the build, whether the body has
\* features, and its "save" flag.
ApiBuildIds == {"b-old1", "b-new"}

PredictRequests ==
  [build_id : ApiBuildIds, has_features : BOOLEAN, save : BOOLEAN]

\* The answer of POST /predict.
PredictResponse(status, build_id) ==
  [endpoint |-> "predict", status |-> status, build_id |-> build_id]

\* predict() of api.py after model.predict(features) returned or raised:
\* the result is saved unless the request says "save": false.
PredictScored(r, features, req) ==
  IF r.kind = "raised"
  THEN /\ api_response' = PredictResponse(500, req.build_id)
       /\ UNCHANGED <<anomaly_results, clock>>
  ELSE /\ api_response' = PredictResponse(200, req.build_id)
       /\ IF req.save
          THEN /\ anomaly_results' =
                    save_anomaly_result(anomaly_results, r.value, features,
                                        clock + 1)
               /\ clock' = clock + 1
          ELSE UNCHANGED <<anomaly_results, clock>>

\* POST /predict
PostPredict ==
  \E req \in PredictRequests :
    /\ api_calls < MaxApiCalls
    /\ api_calls' = api_calls + 1
    /\ IF ~is_trained
       THEN /\ api_response' = PredictResponse(503, req.build_id)
            /\ UNCHANGED <<anomaly_results, clock>>
       ELSE IF ~req.has_features
       THEN /\ api_response' = PredictResponse(400, req.build_id)
            /\ UNCHANGED <<anomaly_results, clock>>
       ELSE LET features == WithKey(RoutineFeatures, "build_id",
                                    req.build_id)
            IN PredictScored(predict(Instance, features), features, req)
    /\ UNCHANGED <<modelVars, detectorVars, featVars, ncrash, rawVars,
                   parserVars, parserStores, drainVars, reconnectVars,
                   extractVars, backup_files, queueApiVars>>

\* save_anomaly_results_batch(results): one INSERT of all the rows, in one
\* transaction at the time now; nothing is inserted for an empty list.
RECURSIVE save_anomaly_results_batch(_, _, _)
save_anomaly_results_batch(rows, results, now) ==
  IF results = <<>>
  THEN rows
  ELSE save_anomaly_results_batch(
         save_anomaly_result(rows, Head(results), SqlNull, now),
         Tail(results), now)

\* The lists of builds of a batch, each build with routine features.
BatchBuilds == {<<>>, <<"b-new">>, <<"b-old1", "b-new">>}

BatchRequests == [builds : BatchBuilds, has_builds : BOOLEAN, save : BOOLEAN]

\* The answer of POST /predict/batch.
BatchResponse(status, total) ==
  [endpoint |-> "predict-batch", status |-> status, total |-> total]

\* model.predict of every build of the batch, in order.
BatchResults(inst, builds) ==
  [i \in 1..Len(builds) |->
     predict(inst, WithKey(RoutineFeatures, "build_id", builds[i]))]

\* predict_batch after the loop over the builds: an exception of predict
\* leaves the route (it has no try) and the request answers 500.
BatchScored(rs, req) ==
  IF \E i \in 1..Len(rs) : rs[i].kind = "raised"
  THEN /\ api_response' = BatchResponse(500, 0)
       /\ UNCHANGED <<anomaly_results, clock>>
  ELSE /\ api_response' = BatchResponse(200, Len(rs))
       /\ IF req.save /\ rs # <<>>
          THEN /\ anomaly_results' =
                    save_anomaly_results_batch(
                      anomaly_results, [i \in 1..Len(rs) |-> rs[i].value],
                      clock + 1)
               /\ clock' = clock + 1
          ELSE UNCHANGED <<anomaly_results, clock>>

\* predict_batch without its look at model.is_trained.
BatchAnswer_unguarded(trained, req) ==
  IF ~req.has_builds
  THEN /\ api_response' = BatchResponse(400, 0)
       /\ UNCHANGED <<anomaly_results, clock>>
  ELSE BatchScored(BatchResults(Instance, req.builds), req)

\* predict_batch: 503 without a trained model, 400 without "builds".
BatchAnswer(trained, req) ==
  IF ~trained
  THEN /\ api_response' = BatchResponse(503, 0)
       /\ UNCHANGED <<anomaly_results, clock>>
  ELSE IF ~req.has_builds
  THEN /\ api_response' = BatchResponse(400, 0)
       /\ UNCHANGED <<anomaly_results, clock>>
  ELSE BatchScored(BatchResults(Instance, req.builds), req)

\* POST /predict/batch
PostPredictBatch ==
  \E req \in BatchRequests :
    /\ api_calls < MaxApiCalls
    /\ api_calls' = api_calls + 1
    /\ BatchAnswer(is_trained, req)
    /\ UNCHANGED <<modelVars, detectorVars, featVars, ncrash, rawVars,
                   parserVars, parserStores, drainVars, reconnectVars,
                   extractVars, backup_files, queueApiVars>>

\* The answer of POST /model/backup.
BackupResponse(status) == [endpoint |-> "model-backup", status |-> status]

\* The backup written at a time: copies of the model file and, where they
\* exist, of the scaler and metadata files, named after the timestamp.
BackupOf(timestamp) ==
  [timestamp |-> timestamp, model |-> model_file, scaler |-> scaler_file,
   meta |-> meta_file]

\* POST /model/backup: 400 without a trained model; shutil.copy raises
\* when there is no file at MODEL_PATH and the request answers 500.
BackupModel ==
  /\ api_calls < MaxApiCalls
  /\ api_calls' = api_calls + 1
  /\ IF ~is_trained
     THEN /\ api_response' = BackupResponse(400)
          /\ UNCHANGED backup_files
     ELSE IF model_file = Absent
     THEN /\ api_response' = BackupResponse(500)
          /\ UNCHANGED backup_files
     ELSE /\ api_response' = BackupResponse(200)
          /\ backup_files' = backup_files \cup {BackupOf(clock)}
  /\ UNCHANGED <<modelVars, anomaly_results, clock, detectorVars, featVars,
                 ncrash, rawVars, parserVars, parserStores, drainVars,
                 reconnectVars, extractVars, queueApiVars>>

\* The rows of a build.
RowsOfBuild(rows, build_id) ==
  {i \in 1..Len(rows) : rows[i].build_id = build_id}

\* The columns that the SELECT of get_anomaly_by_build_id returns.
SelectedColumns ==
  {"id", "build_id", "timestamp", "is_anomaly", "anomaly_score",
   "prediction", "confidence", "anomaly_reasons", "model_version"}

SelectedRow(row) ==
  [k \in SelectedColumns |->
     IF k = "timestamp" THEN row.created_at ELSE row[k]]

\* WHERE build_id = %s ORDER BY created_at DESC LIMIT 1: the position of
\* the row returned, among the rows of the build.
LatestOf_oldest(rows, found) ==
  CHOOSE i \in found :
    \A j \in found : rows[j].created_at >= rows[i].created_at

LatestOf(rows, found) ==
  CHOOSE i \in found :
    \A j \in found : rows[j].created_at <= rows[i].created_at

\* get_anomaly_by_build_id(build_id): the row as a dict, or None.
get_anomaly_by_build_id(rows, build_id) ==
  IF RowsOfBuild(rows, build_id) = {} THEN NoneObj
  ELSE SelectedRow(rows[LatestOf(rows, RowsOfBuild(rows, build_id))])

\* The builds asked for: those of POST /predict, the seeded ones and one
\* that was never scored.
AskedBuildIds == ApiBuildIds \cup {"b-old2", "b-never"}

\* The answer of GET /results/<build_id>.
ResultResponse(build_id, found) ==
  IF found = NoneObj
  THEN [endpoint |-> "results", status |-> 404, build_id |-> build_id]
  ELSE [endpoint |-> "results", status |-> 200, build_id |-> build_id,
        result |-> found]

\* GET /results/<build_id>
GetResultByBuild ==
  \E build_id \in AskedBuildIds :
    /\ api_calls < MaxApiCalls
    /\ api_calls' = api_calls + 1
    /\ api_response' =
         ResultResponse(build_id,
                        get_anomaly_by_build_id(anomaly_results, build_id))
    /\ UNCHANGED <<modelVars, anomaly_results, clock, detectorVars, featVars,
                   ncrash, rawVars, parserVars, parserStores, drainVars,
                   reconnectVars, extractVars, backup_files, queueApiVars>>

\* The "count" of POST /queue/process: a number of messages, or "all".
QueueCounts ==
  {[all |-> FALSE, n |-> 1, processed |-> 0],
   [all |-> FALSE, n |-> 2, processed |-> 0],
   [all |-> TRUE, n |-> 0, processed |-> 0]}

\* The messages one request pulls at most.
MaxQueueGets == 2

\* The answer of POST /queue/process.
QueueResponse(processed) ==
  [endpoint |-> "queue-process", status |-> 200, processed |-> processed]

\* POST /queue/process arrives: the route takes the handler singleton and
\* starts its loop of process_one calls (process_all_pending for "all").
QueueProcessRequest ==
  \E count \in QueueCounts :
    /\ qp_pc = "idle"
    /\ api_calls < MaxApiCalls
    /\ api_calls' = api_calls + 1
    /\ qp_left' = count
    /\ qp_pc' = "process_one"
    /\ UNCHANGED <<api_response, backup_files, qp_h, modelVars, workerVars,
                   drainVars, reconnectVars, extractVars>>

\* The loop of the route, and process_one up to its basic_get: when the
\* count is used up, or basic_get finds the queue empty, the request is
\* answered; else the message got is passed to process_message.
QueueProcessOne ==
  \E csv \in CsvFiles :
    /\ qp_pc = "process_one"
    /\ IF ~qp_left.all /\ qp_left.n = 0
       THEN /\ ~csv.exists
            /\ api_response' = QueueResponse(qp_left.processed)
            /\ qp_pc' = "idle"
            /\ UNCHANGED <<instVars, diskVars, ntrain, saved, fresh,
                           features_queue, qp_h, qp_left>>
       ELSE /\ qp_left.processed < MaxQueueGets
            /\ is_trained => ~csv.exists
            /\ _ensure_model_trained(csv)
            /\ IF features_queue = <<>>
               THEN /\ api_response' = QueueResponse(qp_left.processed)
                    /\ qp_pc' = "idle"
                    /\ UNCHANGED <<features_queue, qp_h, qp_left>>
               ELSE /\ qp_h' = Head(features_queue)
                    /\ features_queue' = Tail(features_queue)
                    /\ qp_left' = [qp_left EXCEPT
                                     !.n = IF qp_left.all THEN 0 ELSE @ - 1]
                    /\ qp_pc' = "process_message"
                    /\ UNCHANGED api_response
    /\ UNCHANGED <<t_pc, t_X, t_cols, t_X_scaled, predictVars, ninjected,
                   npublished, features_settled, rawVars, ncrash, parserVars,
                   parserStores, detectorVars, anomaly_results, clock,
                   drainVars, reconnectVars, extractVars, api_calls,
                   backup_files>>

\* process_message settles the message got by basic_get: requeued to the
\* head of the queue, or gone from it for good.
QueueSettled(outcome) ==
  IF outcome = "nack_requeue"
  THEN /\ features_queue' = <<qp_h>> \o features_queue
       /\ UNCHANGED features_settled
  ELSE /\ features_settled' = features_settled + 1
       /\ UNCHANGED features_queue

\* process_message after predict(features) returned or raised, in the API
\* thread.
QueueScored(r, features) ==
  IF r.kind = "raised"
  THEN /\ QueueSettled(ProcessMessageSettlement("Exception"))
       /\ UNCHANGED <<anomaly_results, clock, processed_count, anomaly_count>>
  ELSE /\ anomaly_results' =
            save_anomaly_result(anomaly_results, r.value, features, clock + 1)
       /\ clock' = clock + 1
       /\ processed_count' = processed_count + 1
       /\ anomaly_count' = IF r.value.is_anomaly THEN anomaly_count + 1
                           ELSE anomaly_count
       /\ QueueSettled(ProcessMessageSettlement("none"))

\* process_message(self.channel, method, properties, body) called by
\* process_one in the API thread, from json.loads to basic_ack/basic_nack;
\* process_one then returns True.
QueueProcessMessage ==
  \E csv \in CsvFiles :
    /\ qp_pc = "process_message"
    /\ IF ProcessMessageRaises(qp_h) # "none"
       THEN /\ ~csv.exists
            /\ QueueSettled(ProcessMessageSettlement(
                              ProcessMessageRaises(qp_h)))
            /\ UNCHANGED <<instVars, diskVars, ntrain, saved, fresh,
                           anomaly_results, clock, processed_count,
                           anomaly_count>>
       ELSE /\ is_trained => ~csv.exists
            /\ _ensure_model_trained(csv)
            /\ QueueScored(predict(InstanceAfter, MessageFeatures(qp_h.value)),
                           MessageFeatures(qp_h.value))
    /\ qp_h' = NoBody
    /\ qp_left' = [qp_left EXCEPT !.processed = @ + 1]
    /\ qp_pc' = "process_one"
    /\ UNCHANGED <<t_pc, t_X, t_cols, t_X_scaled, predictVars, ninjected,
                   npublished, rawVars, ncrash, parserVars, parserStores,
                   ad_pc, ad_h, drainVars, reconnectVars, extractVars,
                   apiVars>>

\* Time passes.
Tick ==
  /\ clock < MaxClock
  /\ clock' = clock + 1
  /\ UNCHANGED <<drainVars, modelVars, rawVars, featVars, ncrash, parserVars,
                 parserStores, detectorVars, anomaly_results, otherVars>>

(***************************************************************************)
(* Broker connections: the consumer thread of the anomaly-detector         *)
(* (main.py, queue_handler.py) and the start of the log-parser (main.py,   *)
(* queue_handler.py).                                                      *)
(***************************************************************************)

\* Everything but the broker and the two consumers' connection state.
notReconnectVars ==
  <<drainVars, modelVars, rawVars, featVars, ncrash, parserVars,
    parserStores, detectorVars, anomaly_results, clock, apiVars,
    extractVars, queueApiVars>>

\* The broker becomes unreachable, and reachable again.
BrokerDown ==
  /\ broker_up
  /\ broker_up' = FALSE
  /\ UNCHANGED <<consumerVars, lp_proc, notReconnectVars>>

BrokerUp ==
  /\ ~broker_up
  /\ broker_up' = TRUE
  /\ UNCHANGED <<consumerVars, lp_proc, notReconnectVars>>

\* handler.connect() in consumer_thread: a new channel when the broker is
\* reachable; after five failed attempts it returns False and leaves the
\* handler's channel as it was.
ConsumerConnect ==
  /\ ct_pc = "connect"
  /\ ad_channel' = IF broker_up THEN "open" ELSE ad_channel
  /\ ct_pc' = "start_consuming"
  /\ UNCHANGED <<reconnect_delay, last_wait, connected_since, broker_up,
                 lp_proc, notReconnectVars>>

\* handler.start_consuming(): it connects when there is no channel (and
\* raises RuntimeError when that fails), then basic_consume and
\* channel.start_consuming(), which raise on a channel whose connection is
\* gone.
ConsumerStartConsuming ==
  /\ ct_pc = "start_consuming"
  /\ IF broker_up /\ ad_channel # "closed"
     THEN /\ ad_channel' = "open"
          /\ connected_since' = TRUE
          /\ ct_pc' = "consuming"
     ELSE /\ ad_channel' = IF ad_channel = "None" THEN "None" ELSE "closed"
          /\ ct_pc' = "sleep"
          /\ UNCHANGED connected_since
  /\ UNCHANGED <<reconnect_delay, last_wait, broker_up, lp_proc,
                 notReconnectVars>>

\* The connection is lost while consuming: channel.start_consuming()
\* raises, and consumer_thread catches the exception.
ConsumerBrokerError ==
  /\ ct_pc = "consuming"
  /\ ~broker_up
  /\ ad_channel' = "closed"
  /\ ct_pc' = "sleep"
  /\ UNCHANGED <<reconnect_delay, last_wait, connected_since, broker_up,
                 lp_proc, notReconnectVars>>

\* The next delay: reconnect_delay = min(reconnect_delay * 2, max_delay)
NextDelay(delay) == IF delay * 2 < max_delay THEN delay * 2 ELSE max_delay

\* time.sleep(reconnect_delay) and the exponential backoff of the except
\* branch.
ConsumerSleep ==
  /\ ct_pc = "sleep"
  /\ last_wait' = reconnect_delay
  /\ reconnect_delay' = NextDelay(reconnect_delay)
  /\ connected_since' = FALSE
  /\ ct_pc' = "connect"
  /\ UNCHANGED <<ad_channel, broker_up, lp_proc, notReconnectVars>>

\* handler.start_consuming() returns (stop_consuming was called): the else
\* branch resets the delay and the loop goes on.
ConsumerStopped ==
  /\ ct_pc = "consuming"
  /\ reconnect_delay' = initial_delay
  /\ ct_pc' = "connect"
  /\ UNCHANGED <<ad_channel, last_wait, connected_since, broker_up, lp_proc,
                 notReconnectVars>>

\* LogParserService.start: rabbitmq.connect() is tried once; when it
\* returns False, start returns False and main calls sys.exit(1).
ParserConnect ==
  /\ lp_proc = "start"
  /\ lp_proc' = IF broker_up THEN "consuming" ELSE "exited"
  /\ UNCHANGED <<broker_up, consumerVars, notReconnectVars>>

\* The connection is lost while the log-parser consumes:
\* channel.start_consuming() raises, consume catches KeyboardInterrupt
\* only, and the exception ends start, main and the process.
ParserBrokerError ==
  /\ lp_proc = "consuming"
  /\ ~broker_up
  /\ lp_proc' = "exited"
  /\ UNCHANGED <<broker_up, consumerVars, notReconnectVars>>

NextReconnect ==
  \/ BrokerDown
  \/ BrokerUp
  \/ ConsumerConnect
  \/ ConsumerStartConsuming
  \/ ConsumerBrokerError
  \/ ConsumerSleep
  \/ ConsumerStopped
  \/ ParserConnect
  \/ ParserBrokerError

(***************************************************************************)
(* FeatureExtractor.extract on webhook payloads of every dialect           *)
(* (feature_extractor.py), and the features message built from the result  *)
(* (main.py).                                                              *)
(***************************************************************************)

\* Payloads extracted in one behaviour.
MaxExtracts == 2

\* No provider in _meta, and a key that the payload does not have.
NoHint == "no provider"

Missing == [payload |-> "no such key"]

\* _meta.provider as the collector or a test sets it.
ProviderHints == {NoHint, "github", "gitlab", "test"}

\* workflow_run objects: run_started_at before updated_at, and after it.
WorkflowRuns ==
  {Missing,
   [id |-> "wr-1", run_started_at |-> 100, updated_at |-> 300],
   [id |-> "wr-2", run_started_at |-> 300, updated_at |-> 100]}

\* object_attributes of a GitLab pipeline event.
ObjectAttributes == {Missing, [id |-> "oa-1", duration |-> 60]}

\* duration_seconds of _enriched: none, zero, and a measured one.
EnrichedDurations == {None, 0, 180}

\* The log text of every payload here.
RoutineLog == LogText(<< <<"INFO", "start">>, <<"WARN", "disk">> >>)

WithOptional(dict, key, value, absent) ==
  IF value = absent THEN dict ELSE WithKey(dict, key, value)

\* The payload with these parts.
WebhookPayload(hint, workflow, attrs, duration) ==
  WithOptional(
    WithOptional(
      [_meta |-> WithOptional([request_id |-> "r-1", mongo_id |-> "m-1"],
                              "provider", hint, NoHint),
       _enriched |-> WithOptional([raw_logs |-> RoutineLog],
                                  "duration_seconds", duration, None)],
      "workflow_run", workflow, Missing),
    "object_attributes", attrs, Missing)

\* A payload arrives.
ExtractReceive ==
  \E hint \in ProviderHints, workflow \in WorkflowRuns,
     attrs \in ObjectAttributes, duration \in EnrichedDurations :
    /\ fx_pc = "idle"
    /\ fx_count < MaxExtracts
    /\ fx_payload' = WebhookPayload(hint, workflow, attrs, duration)
    /\ fx_pc' = "extract"
    /\ UNCHANGED <<fx_message, fx_count, drainVars, modelVars, workerVars,
                   apiVars, reconnectVars, queueApiVars>>

\* Log texts: none, one line, one line that ends with a newline, two
\* lines, and a line with each of the URLs.
UrlLog(piece) == LogText(<< <<"fetch", piece>>, <<"WARN", "disk">> >>)

RawTexts ==
  {LogText(<<>>), LogText(<< <<"INFO", "start">> >>),
   LogText(<< <<"INFO", "start">>, <<"">> >>), RoutineLog}
    \cup {UrlLog(piece) : piece \in UrlPieces}

\* Step lists: none, a step with one line, and a step with a URL line, a
\* blank line and an error line.
StepLists ==
  { <<>>,
    << [name |-> "build", log_lines |-> << <<"INFO", "start">> >>] >>,
    << [name |-> "test",
        log_lines |-> << <<"fetch", "https://evil-github.com/x">>, <<"">>,
                         <<"ERR", "disk">> >>] >> }

\* A test payload with this log text and these steps.
LogPayload(text, steps) ==
  [_meta |-> [request_id |-> "r-2", mongo_id |-> "m-2", provider |-> "test"],
   _enriched |-> [raw_logs |-> text, steps |-> steps,
                  duration_seconds |-> 180]]

\* A payload with logs arrives.
ExtractReceiveLogs ==
  \E text \in RawTexts, steps \in StepLists :
    /\ fx_pc = "idle"
    /\ fx_count < MaxExtracts
    /\ fx_payload' = LogPayload(text, steps)
    /\ fx_pc' = "extract"
    /\ UNCHANGED <<fx_message, fx_count, drainVars, modelVars, workerVars,
                   apiVars, reconnectVars, queueApiVars>>

\* extract() returned e: the parser has parsed the lines and the features
\* message is built.
FxExtracted(e) ==
  /\ root' = e.dr.root
  /\ cluster_objs' = e.dr.cluster_objs
  /\ clusters' = e.dr.clusters
  /\ fx_message' = feature_message(e.features, fx_payload["_meta"])

\* extractor.extract(payload) and the features message of
\* _process_message.
ExtractRun ==
  /\ fx_pc = "extract"
  /\ FxExtracted(extract(DrainState, fx_payload))
  /\ fx_count' = fx_count + 1
  /\ fx_pc' = "done"
  /\ UNCHANGED <<fx_payload, nparsed, last_result, returned, modelVars,
                 workerVars, apiVars, reconnectVars, queueApiVars>>

\* The next payload can come.
ExtractNext ==
  /\ fx_pc = "done"
  /\ fx_pc' = "idle"
  /\ UNCHANGED <<fx_payload, fx_message, fx_count, drainVars, modelVars,
                 workerVars, apiVars, reconnectVars, queueApiVars>>

NextExtract ==
  \/ ExtractReceive
  \/ ExtractReceiveLogs
  \/ ExtractRun
  \/ ExtractNext

Init == InitDrain /\ InitModel /\ InitPipeline

NextDrain == Parse

SpecDrain == Init /\ [][NextDrain]_vars

SpecModel == Init /\ [][NextModel]_vars

\* Both services before start, with messages waiting on the queues.
InitLoaded == InitDrain /\ InitModel /\ QueuesLoaded

\* Feature messages on the queue when the API is exercised.
MaxApiMessages == 1

\* The features message that the log-parser publishes for the payload.
PublishedFor(payload) ==
  JsonObject(feature_message(extract(NewDrainParser, payload).features,
                             payload["_meta"]))

ParserMessages == {PublishedFor(PayloadRoutine)}

\* The anomaly-detector before start, with features messages of the
\* log-parser waiting and the seeded rows (or the first of them, or none)
\* in anomaly_results.
InitApi ==
  /\ InitDrain
  /\ InitModel
  /\ \E feats \in SeqsUpTo(ParserMessages, MaxApiMessages),
        n \in 0..Len(SeededRows) :
       InitWorkers(<<>>, feats, SubSeq(SeededRows, 1, n))

\* The anomaly-detector with its queue consumer and its API.
NextApi ==
  \/ DetectorSteady
  \/ RetrainFromNormal
  \/ PostPredict
  \/ PostPredictBatch
  \/ BackupModel
  \/ GetResultByBuild
  \/ Tick

SpecApi == InitApi /\ [][NextApi]_vars

\* Feature messages on the queue when the queue is processed over HTTP.
MaxQueueMessages == 2

InitQueueProcess ==
  /\ InitDrain
  /\ InitModel
  /\ \E feats \in SeqsUpTo(ParserMessages \cup {BodyArray}, MaxQueueMessages) :
       InitWorkers(<<>>, feats, <<>>)

\* The background consumer thread and the API thread of POST
\* /queue/process, which share the handler singleton and its channel.
NextQueueProcess ==
  \/ DetectorSteady
  \/ QueueProcessRequest
  \/ QueueProcessOne
  \/ QueueProcessMessage

SpecQueueProcess == InitQueueProcess /\ [][NextQueueProcess]_vars

SpecExtract == Init /\ [][NextExtract]_vars

SpecReconnect == Init /\ [][NextReconnect]_vars

\* The workers, each of which a signal can reach at any moment.
NextShutdown ==
  \/ ParserSteady
  \/ DetectorSteady
  \/ ParserSignal
  \/ DetectorSignal

SpecShutdown == InitLoaded /\ [][NextShutdown]_vars

SpecPipeline == InitLoaded /\ [][NextPipeline]_vars

SpecPipelineSteady ==
  /\ InitLoaded
  /\ [][NextPipelineSteady]_vars
  /\ WF_lp_pc(ParserAdvances)
  /\ WF_ad_pc(DetectorAdvances)

\* C1: once parse(L) on a non-empty line L has returned a template_id,
\* every later parse(L) returns that same template_id, so no line ever has
\* two different template_ids returned for it.
C1_StableTemplateId ==
  \A l \in RawLines : preprocess(l) # <<>> => Cardinality(returned[l]) <= 1

\* C2: every AnomalyResult returned by predict() for a feature dict with
\* suspicious_pattern_count >= 1 has is_anomaly = TRUE, whatever the forest
\* predicted and scored.
C2_SuspiciousAlwaysFlagged ==
  (result.kind = "result"
     /\ OrZero(Get(result.features, "suspicious_pattern_count", 0)) >= 1)
  => result.value.is_anomaly

\* C2 witness: a returned result for a suspicious build that the forest
\* itself predicted normal (+1, positive raw score) and that is flagged.
C2_Witness ==
  /\ result.kind = "result"
  /\ OrZero(Get(result.features, "suspicious_pattern_count", 0)) >= 1
  /\ result.value.prediction = 1
  /\ result.value.anomaly_score = -5
  /\ result.value.is_anomaly

\* C8: every prediction that returns used a scaler and a forest of one
\* training run, for predict() and for decision_function() alike.
C8_PredictionFromOneTrainingRun ==
  result.kind = "result"
  => /\ result.scaler_run = result.predict_run
     /\ result.predict_run = result.decision_run

\* C9: an instance freshly loaded from the files of a completed save gives,
\* for every feature dict, the same result (all fields but processed_at) as
\* the instance that was saved.
C9_SaveLoadRoundTrip ==
  fresh => \A f \in FeatureDicts : predict(Instance, f) = predict(saved, f)

\* The training run a file at MODEL_PATH comes from.
FileRun(file) ==
  IF file.kind \in {"absent", "partial"} THEN file.kind
  ELSE ToString(file.run)

\* C10: once a snapshot has been saved, at every later point (every
\* intermediate point of a later save_model included) the forest, scaler
\* and metadata files at MODEL_PATH are whole and come from one training
\* run.
C10_SnapshotReplacedAtomically ==
  saved # NoneObj
  => /\ FileRun(model_file) = FileRun(scaler_file)
     /\ FileRun(scaler_file) = FileRun(meta_file)
     /\ model_file.kind \notin {"absent", "partial"}


(***************************************************************************)
(* Claims about the queue workers                                          *)
(***************************************************************************)

\* C3: in the log-parser a raw_logs message whose body is a JSON object is
\* acknowledged only after its parsed artifact and its metrics row were
\* stored and its features message was published; when a store or the
\* publish failed the message is requeued, not acknowledged.
C3_AckOnlyAfterStoredAndPublished ==
  (lp_pc = "settle" /\ lp_h.body.json = "object" /\ lp_h.outcome = "ack")
    => lp_h.stored /\ lp_h.metered /\ lp_h.published

\* C4: in the anomaly-detector a features message is acknowledged only
\* after its row was inserted into anomaly_results, and when scoring (with
\* the model made ready before it) or the insert raised, the message is
\* requeued and processed_count and anomaly_count are as they were when
\* the message arrived.
C4_AckOnlyAfterInsert ==
  ad_pc = "settle" =>
    /\ ad_h.outcome = "ack" =>
         /\ ad_h.inserted
         /\ Len(anomaly_results) = ad_h.before[3] + 1
         /\ anomaly_results[Len(anomaly_results)].build_id
              = ad_h.result.build_id
    /\ ad_h.raised \in {"predict", "save_anomaly_result"} =>
         /\ ad_h.outcome = "nack_requeue"
         /\ processed_count = ad_h.before[1]
         /\ anomaly_count = ad_h.before[2]
         /\ Len(anomaly_results) = ad_h.before[3]

\* A features message published by the log-parser was scored and its row
\* inserted; the acknowledge is about to be sent.
C4_Witness ==
  /\ ad_pc = "settle"
  /\ ad_h.outcome = "ack"
  /\ ad_h.inserted
  /\ ad_h.body.value._meta.source = "log-parser"
  /\ processed_count = ad_h.before[1] + 1
  /\ Len(anomaly_results) = ad_h.before[3] + 1

\* The deliveries a worker holds and has not settled.
InFlight(h) == IF h.body.json = "none" THEN 0 ELSE 1

\* Every message put on a queue is on the queue, held by the worker, or
\* was acknowledged or rejected by the worker.
NoMessageLost ==
  /\ nraw = Len(raw_logs_queue) + InFlight(lp_h) + raw_settled
  /\ ninjected + npublished
       = Len(features_queue) + InFlight(ad_h) + features_settled

IsPrefix(s, t) == Len(s) <= Len(t) /\ SubSeq(t, 1, Len(s)) = s

\* No step removes or changes a stored artifact, a metrics row, a result
\* row or a features message that waits behind the one being handled.
EffectsKept ==
  /\ IsPrefix(parsed_logs, parsed_logs')
  /\ IsPrefix(build_metrics, build_metrics')
  /\ IsPrefix(anomaly_results, anomaly_results')
  /\ raw_processed \subseteq raw_processed'
  /\ npublished' >= npublished

\* C5: no message is lost by a crash: an unsettled delivery of a worker
\* that dies is back on its queue (auto-ack is off and the acknowledge is
\* the last step), and a replay adds to the stores and to the features
\* queue without removing or changing what the first handling left.
C5_NoMessageLostByCrash == []NoMessageLost /\ [][EffectsKept]_vars

\* The log-parser died after it stored the artifact of the only raw_logs
\* message; the message was redelivered, a second artifact stored beside
\* the first, and the message acknowledged.
C5_Witness ==
  /\ ncrash >= 1
  /\ nraw = 1
  /\ Len(parsed_logs) = 2
  /\ parsed_logs[1].raw_log_id = parsed_logs[2].raw_log_id
  /\ raw_settled = 1

\* C6: no poison-message loop: while nothing fails and no process dies,
\* every message on either queue is eventually acknowledged or dropped,
\* also one whose handling fails the same way on every delivery, and so
\* are the messages behind it.
C6_EveryMessageEventuallySettled ==
  <>(raw_settled = nraw /\ features_settled = ninjected + npublished)

\* C7: in both workers a body that is not valid JSON leaves the queue
\* without being requeued (log-parser: ack, anomaly-detector: nack without
\* requeue) and has no effect on the stores, the features queue or the
\* counters.
C7_InvalidJsonDropped ==
  /\ (lp_pc = "settle"
      /\ lp_h.body.json \in {"JSONDecodeError", "UnicodeDecodeError"})
       => /\ lp_h.outcome = "ack"
          /\ ~lp_h.extracted /\ ~lp_h.stored /\ ~lp_h.metered
          /\ ~lp_h.published
  /\ (ad_pc = "settle"
      /\ ad_h.body.json \in {"JSONDecodeError", "UnicodeDecodeError"})
       => /\ ad_h.outcome = "nack_drop"
          /\ ~ad_h.inserted
          /\ processed_count = ad_h.before[1]
          /\ anomaly_count = ad_h.before[2]

(***************************************************************************)
(* Claims about the API and the result table                               *)
(***************************************************************************)

\* C11: POST /model/retrain-from-normal that finds fewer than min_samples
\* normal builds in the window answers 400 and leaves the model files and
\* the in-memory model, scaler, is_trained and training_stats as they were.
C11_TooFewNormalsChangeNothing ==
  [][(/\ api_calls' = api_calls + 1
      /\ api_response'.endpoint = "retrain-from-normal"
      /\ api_response'.found < api_response'.min_samples)
       => /\ api_response'.status = 400
          /\ UNCHANGED <<instVars, diskVars>>]_vars

\* A trained model with its files, one normal build in the window, and a
\* request for two that was answered 400.
C11_Witness ==
  /\ api_response.endpoint = "retrain-from-normal"
  /\ api_response.status = 400
  /\ api_response.found = 1
  /\ api_response.min_samples = 2
  /\ is_trained
  /\ model_file # Absent

\* The rows that the detector marked not anomalous and that are inside the
\* window of the given hours.
NormalsInWindow(hours) ==
  {i \in DOMAIN anomaly_results :
     /\ ~anomaly_results[i].is_anomaly
     /\ anomaly_results[i].created_at > clock - hours}

\* C12: every features message that the detector worker scores as not
\* anomalous and acknowledges leaves a row whose raw_features holds the
\* feature values of the message, so that the query of
\* POST /model/retrain-from-normal finds a training row for every such
\* build inside the window.
C12_NormalBuildsFeedRetraining ==
  /\ (ad_pc = "settle" /\ ad_h.outcome = "ack" /\ ~ad_h.result.is_anomaly)
       => anomaly_results[Len(anomaly_results)].raw_features
            = Jsonb(MessageFeatures(ad_h.body.value))
  /\ \A hours \in HoursValues :
       Len(get_normal_builds_for_training(anomaly_results, clock, hours))
         >= Cardinality(NormalsInWindow(hours))

(***************************************************************************)
(* Claims about the broker connections                                     *)
(***************************************************************************)

\* C13: the consumer thread of the detector waits 5, 10, 20, 40, 60, 60, ...
\* seconds before reconnecting after consecutive broker errors (never less
\* than 5, never more than 60), and after a connection was established
\* and the consumer consumed on it, the next broker error waits 5 seconds
\* again.
C13_BackoffResetsAfterConnection ==
  ct_pc = "sleep" =>
    /\ reconnect_delay >= initial_delay
    /\ reconnect_delay <= max_delay
    /\ connected_since => reconnect_delay = initial_delay
    /\ (~connected_since /\ last_wait = 0) => reconnect_delay = initial_delay
    /\ (~connected_since /\ last_wait # 0) =>
         reconnect_delay = (IF last_wait * 2 < max_delay THEN last_wait * 2
                            ELSE max_delay)

\* C14: the log-parser reconnects after a broker error that fails its
\* first connection or ends its consume loop; its process does not stop or
\* exit because of it.
C14_ParserKeepsRunning == lp_proc # "exited"

(***************************************************************************)
(* Claims about the stored results                                         *)
(***************************************************************************)

\* The rows of the table before this step are its first rows after it,
\* unchanged.
RowsKept ==
  /\ Len(anomaly_results') >= Len(anomaly_results)
  /\ SubSeq(anomaly_results', 1, Len(anomaly_results)) = anomaly_results

\* The position of the row of a build that was inserted last.
LastInserted(build_id) ==
  CHOOSE i \in RowsOfBuild(anomaly_results, build_id) :
    \A j \in RowsOfBuild(anomaly_results, build_id) : j <= i

C16_VectorInDetectorOrder ==
  fx_pc = "done" =>
    /\ Len(fx_message.feature_vector) = 12
    /\ Len(fx_message.feature_names) = 12
    /\ \A i \in 1..12 :
         fx_message.feature_vector[i]
           = fx_message.features[fx_message.feature_names[i]]
    /\ fx_message.feature_names = FEATURE_NAMES
    /\ _extract_feature_vector(fx_message.features)
         = fx_message.feature_vector

\* A message whose first two values differ and are those of
\* duration_seconds and log_line_count.
C16_Witness ==
  /\ fx_pc = "done"
  /\ fx_message.features.duration_seconds = 180
  /\ fx_message.features.log_line_count = 2
  /\ fx_message.features.warning_count = 1
  /\ fx_message.feature_vector[1] = 180
  /\ fx_message.feature_vector[5] = 1

\* C17: whatever the dialect, the order of the timestamps and the enriched
\* or GitLab duration, each of the 12 numeric fields of the extracted
\* features is at least 0, duration_seconds too.
C17_NumericFieldsNotNegative ==
  fx_pc = "done" =>
    \A k \in FeatureSet : fx_message.features[k] >= 0

\* The provider hint of the payload given to extract().
HintOf(payload) == Get(payload["_meta"], "provider", NoHint)

\* C18: the dialect is chosen by priority: the _meta.provider hint first
\* (a payload hinted gitlab is extracted as gitlab also when it has a
\* workflow_run), then workflow_run for github, then object_attributes for
\* gitlab, else generic; and the provider of the features is one of github,
\* gitlab, generic.
C18_HintWinsOverShape ==
  fx_pc = "done" =>
    /\ fx_message.features.provider \in {"github", "gitlab", "generic"}
    /\ HintOf(fx_payload) \in {"github", "gitlab"}
         => fx_message.features.provider = HintOf(fx_payload)
    /\ HintOf(fx_payload) = NoHint =>
         fx_message.features.provider =
           (IF "workflow_run" \in DOMAIN fx_payload THEN "github"
            ELSE IF "object_attributes" \in DOMAIN fx_payload THEN "gitlab"
            ELSE "generic")

(***************************************************************************)
(* Claims about the templates of the Drain parser                          *)
(***************************************************************************)

\* The tokens of the line that created the cluster (its template_id is
\* their digest).
CreatedWith(cluster) == cluster.template_id.md5

\* The clusters that this step merged a line into.
MergedInto ==
  {c \in DOMAIN cluster_objs : cluster_objs'[c] # cluster_objs[c]}

\* C19: after any sequence of parse calls every cluster's template_tokens
\* is as long as the line that created the cluster, and a line is merged
\* only into a cluster whose template has the line's number of tokens.
C19_TemplateLengthIsFixed ==
  [][/\ \A c \in DOMAIN cluster_objs' :
          Len(cluster_objs'[c].template_tokens)
            = Len(CreatedWith(cluster_objs'[c]))
     /\ \A c \in MergedInto :
          /\ Len(last_result'.tokens) = Len(cluster_objs[c].template_tokens)
          /\ Len(cluster_objs'[c].template_tokens)
               = Len(cluster_objs[c].template_tokens)
    ]_vars

\* Clusters of two and of three tokens exist, and a line of three tokens was
\* merged into one of them.
C19_Witness ==
  /\ \E c \in DOMAIN cluster_objs :
       /\ Len(cluster_objs[c].template_tokens) = 3
       /\ cluster_objs[c].size >= 2
       /\ cluster_objs[c].template_tokens # CreatedWith(cluster_objs[c])
  /\ \E c \in DOMAIN cluster_objs : Len(cluster_objs[c].template_tokens) = 2

\* C20: across parse calls a template position that is <*> stays <*>, and
\* a concrete position stays as it is or becomes <*>: it never becomes
\* another concrete token.
C20_GeneralizationIsMonotonic ==
  [][\A c \in DOMAIN cluster_objs :
       /\ DOMAIN cluster_objs'[c].template_tokens
            = DOMAIN cluster_objs[c].template_tokens
       /\ \A i \in DOMAIN cluster_objs[c].template_tokens :
            /\ cluster_objs'[c].template_tokens[i]
                 \in {cluster_objs[c].template_tokens[i], WILDCARD}
            /\ cluster_objs[c].template_tokens[i] = WILDCARD
                 => cluster_objs'[c].template_tokens[i] = WILDCARD
    ]_vars

\* A cluster with a <*> position and a concrete one took a further line
\* that differs from the creating line at the <*> position.
C20_Witness ==
  \E c \in DOMAIN cluster_objs :
    /\ cluster_objs[c].size >= 3
    /\ \E i, j \in DOMAIN cluster_objs[c].template_tokens :
         /\ cluster_objs[c].template_tokens[i] = WILDCARD
         /\ cluster_objs[c].template_tokens[j] # WILDCARD
    /\ last_result.template = cluster_objs[c].template_tokens
    /\ \E i \in DOMAIN last_result.tokens :
         /\ cluster_objs[c].template_tokens[i] = WILDCARD
         /\ last_result.tokens[i] # CreatedWith(cluster_objs[c])[i]

\* C21: when parse(line) matches a cluster it returns the template_id that
\* the cluster got at creation (the digest of its first tokens, left as it
\* was), and the cluster's template afterwards has <*> exactly where the
\* line's token differed from the template before or the template had <*>,
\* and the token it had everywhere else.
C21_MatchKeepsIdAndGeneralizes ==
  [][\A c \in MergedInto :
       /\ cluster_objs'[c].template_id = cluster_objs[c].template_id
       /\ cluster_objs'[c].template_id
            = get_template_id(CreatedWith(cluster_objs[c]))
       /\ last_result'.template_id = cluster_objs[c].template_id
       /\ last_result'.template = cluster_objs'[c].template_tokens
       /\ \A i \in DOMAIN cluster_objs[c].template_tokens :
            IF \/ last_result'.tokens[i] # cluster_objs[c].template_tokens[i]
               \/ cluster_objs[c].template_tokens[i] = WILDCARD
            THEN cluster_objs'[c].template_tokens[i] = WILDCARD
            ELSE cluster_objs'[c].template_tokens[i]
                   = cluster_objs[c].template_tokens[i]
    ]_vars

\* The last parse matched the cluster of an earlier line that differs from
\* its line at one position: it returned that cluster's id and a template
\* with <*> there.
C21_Witness ==
  \E c \in DOMAIN cluster_objs :
    /\ Len(last_result.tokens) = 3
    /\ Len(CreatedWith(cluster_objs[c])) = 3
    /\ last_result.template_id = cluster_objs[c].template_id
    /\ last_result.tokens # CreatedWith(cluster_objs[c])
    /\ Cardinality({i \in 1..3 : last_result.template[i] = WILDCARD}) = 1
    /\ Cardinality({i \in 1..3 : last_result.tokens[i]
                                    # CreatedWith(cluster_objs[c])[i]}) = 1
    /\ cluster_objs[c].size = 2

\* The children of a node that are keyed by a concrete token.
NamedChildren(node) == node.children \ {WILDCARD}

\* The leaf that the cluster created by this step was added to.
NewLeaf ==
  CHOOSE p \in DOMAIN root' :
    \E k \in DOMAIN root'[p].clusters :
      root'[p].clusters[k] = Len(cluster_objs')

\* C22: after any sequence of parse calls every node below the token-count
\* level has at most max_children children keyed by a concrete token; a
\* token that is new to a full node gets no branch of its own there and goes
\* through the node's <*> child, which is created when it is missing.
C22_NamedChildrenBounded ==
  [][/\ \A p \in DOMAIN root' :
          Len(p) >= 1 => Cardinality(NamedChildren(root'[p])) <= max_children
     /\ Len(cluster_objs') > Len(cluster_objs) =>
          \A d \in 1..(Len(NewLeaf) - 1) :
            LET node == SubSeq(NewLeaf, 1, d)
            IN (/\ node \in DOMAIN root
                /\ TreeKey(last_result'.tokens[d]) \notin root[node].children
                /\ Cardinality(root[node].children) >= max_children)
               => /\ NamedChildren(root'[node]) = NamedChildren(root[node])
                  /\ WILDCARD \in root'[node].children
                  /\ NewLeaf[d + 1] = WILDCARD
    ]_vars

\* A third first token came to the full node of the two-token lines: the
\* node has its two named children and the <*> child, under which the new
\* cluster is.
C22_Witness ==
  /\ <<"2">> \in DOMAIN root
  /\ Cardinality(NamedChildren(root[<<"2">>])) = max_children
  /\ WILDCARD \in root[<<"2">>].children
  /\ \E p \in DOMAIN root :
       /\ Len(p) >= 2
       /\ p[1] = "2"
       /\ p[2] = WILDCARD
       /\ root[p].clusters # <<>>

\* The log lines that extract() worked on for the payload.
ExtractedLines(payload) ==
  LogLines(Get(Enriched(payload), "raw_logs", LogText(<<>>)),
           Get(Enriched(payload), "steps", <<>>))

\* A domain is trusted when it is an allowlist entry or ends with a dot
\* followed by an entry.
AnchoredTrusted(domain) ==
  \E trusted \in TRUSTED_DOMAINS :
    domain = trusted \/ EndsWith(domain, <<".">> \o trusted)

\* C23: a URL's domain, lower-cased and without its port, is trusted only
\* when it equals an allowlist entry or ends with '.' and an entry; every
\* other URL (evil-github.com against github.com) is counted in
\* external_url_count.
C23_TrustedSuffixIsAnchored ==
  fx_pc = "done" =>
    fx_message.features.external_url_count
      = Len(SelectSeq(AllUrls(ExtractedLines(fx_payload)),
                      LAMBDA url : ~AnchoredTrusted(UrlDomain(url))))

\* C24: for every build, whatever log text and steps its payload has, the
\* steps' log_lines together are at least as many as log_line_count.
C24_StepLinesCoverLineCount ==
  fx_pc = "done" =>
    SumSeq([i \in DOMAIN Get(Enriched(fx_payload), "steps", <<>>) |->
              Len(Get(Get(Enriched(fx_payload), "steps", <<>>)[i],
                      "log_lines", <<>>))])
      >= fx_message.features.log_line_count

(***************************************************************************)
(* Claims about the returned AnomalyResult                                 *)
(***************************************************************************)

\* C25: predict() returns an empty anomaly_reasons list whenever the
\* returned is_anomaly is false; only flagged builds have reasons.
C25_NoReasonsUnlessFlagged ==
  (result.kind = "result" /\ ~result.value.is_anomaly)
  => result.value.anomaly_reasons = <<>>

\* The raw score that the predict() call about to return got from
\* decision_function.
RawScoreRead ==
  decision_function(p_forest_d,
                    ScalerTransform(p_scaler,
                                    _extract_feature_vector(p_features)))

\* C26: every AnomalyResult with is_anomaly = true has anomaly_score <= 0:
\* it is -0.05 when a security rule fired and the raw score was positive,
\* and the raw score unchanged in every other case.
C26_FlaggedScoreNotPositive ==
  [][(p_pc = "explain" /\ result'.kind = "result" /\ result' # result) =>
       /\ result'.value.is_anomaly => result'.value.anomaly_score <= 0
       /\ result'.value.anomaly_score =
            (IF _check_security_rules(p_features) # <<>> /\ RawScoreRead > 0
             THEN -5 ELSE RawScoreRead)
    ]_vars

\* C27: a POST /predict, POST /predict/batch or POST /model/backup that
\* arrives while the model is not trained is refused (503, 503 and 400),
\* inserts no row into anomaly_results, writes no backup file and leaves
\* the model instance and its files as they were.
C27_UntrainedRequestsRefused ==
  [][(/\ ~is_trained
      /\ api_calls' = api_calls + 1
      /\ api_response'.endpoint \in {"predict", "predict-batch",
                                     "model-backup"})
       => /\ api_response'.status =
              (IF api_response'.endpoint = "model-backup" THEN 400 ELSE 503)
          /\ anomaly_results' = anomaly_results
          /\ backup_files' = backup_files
          /\ UNCHANGED <<instVars, diskVars>>
    ]_vars

\* A batch was refused with 503 after another request, the model still
\* untrained and no backup written.
C27_Witness ==
  /\ ~is_trained
  /\ api_calls = 2
  /\ api_response = BatchResponse(503, 0)
  /\ backup_files = {}

\* Handlers of features messages that are running in the detector process:
\* process_message in the consumer thread and in the API thread.
MessagesInHand ==
  (IF ad_pc \in {"score", "save", "settle"} THEN 1 ELSE 0)
  + (IF qp_pc = "process_message" THEN 1 ELSE 0)

\* C28: in the detector process at most one features message is being
\* handled at any moment, the consumer thread and the API thread of POST
\* /queue/process taken together.
C28_OneMessageAtATime == MessagesInHand <= 1

\* C29: a process that exits on SIGINT or SIGTERM has stopped its consumer
\* and closed its connections only after the handler that was in flight
\* ran to its end and settled its message: no process exits with a
\* delivery in hand.
C29_InFlightSettledBeforeExit ==
  /\ lp_pc = "exited" => lp_h = NoParsing
  /\ ad_pc = "exited" => ad_h = NoScoring

\* The positions where both tokens are concrete, and those of them where
\* the tokens are equal.
BothConcrete(seq1, seq2) ==
  {i \in DOMAIN seq1 : seq1[i] # WILDCARD /\ seq2[i] # WILDCARD}

EqualConcrete(seq1, seq2) ==
  {i \in BothConcrete(seq1, seq2) : seq1[i] = seq2[i]}

\* C30: the similarity of the tokens of the line parsed last and any
\* template of their length is the number of positions where both are
\* concrete and equal divided by the number of positions where both are
\* concrete, and is 1 when there is no such position.
C30_SimilarityIsOneWithoutConcretes ==
  \A c \in DOMAIN cluster_objs :
    Len(cluster_objs[c].template_tokens) = Len(last_result.tokens) =>
      LET tokens == last_result.tokens
          template_tokens == cluster_objs[c].template_tokens
          sim == _seq_similarity(tokens, template_tokens)
          total == Cardinality(BothConcrete(tokens, template_tokens))
          matches == Cardinality(EqualConcrete(tokens, template_tokens))
      IN IF total = 0
         THEN sim[1] = sim[2]
         ELSE sim[1] * total = matches * sim[2]

\* The leaf that tree_search reaches for the tokens in the tree as it is,
\* NoPath if it reaches none.
LeafReached(tokens) ==
  IF ToString(Len(tokens)) \notin root[<<>>].children THEN NoPath
  ELSE SearchFrom(root, <<ToString(Len(tokens))>>, tokens, 0)

\* The similarity of the tokens and the cluster at position i of a leaf list.
SimAt(tokens, list, i) ==
  _seq_similarity(tokens, cluster_objs[list[i]].template_tokens)

\* The positions of the leaf list whose cluster has a similarity above the
\* threshold.
Qualifying(tokens, list) ==
  {i \in DOMAIN list : AboveThreshold(SimAt(tokens, list, i))}

\* Position i holds the highest similarity of the qualifying ones, and is
\* the first position that does.
BestOf(tokens, list, i) ==
  \A j \in Qualifying(tokens, list) :
    /\ ~FracGreater(SimAt(tokens, list, j), SimAt(tokens, list, i))
    /\ j < i => FracGreater(SimAt(tokens, list, i), SimAt(tokens, list, j))

\* The line went to the cluster at position i of the list: parse returned
\* its template_id and counted the line in it, and no cluster was created.
AssignedTo(list, i) ==
  /\ Len(cluster_objs') = Len(cluster_objs)
  /\ last_result'.template_id = cluster_objs[list[i]].template_id
  /\ cluster_objs'[list[i]].size = cluster_objs[list[i]].size + 1

\* A cluster was created with the tokens as its template and appended to
\* the list of the leaf.
CreatedIn(tokens, leaf) ==
  /\ Len(cluster_objs') = Len(cluster_objs) + 1
  /\ cluster_objs'[Len(cluster_objs')].template_tokens = tokens
  /\ root'[leaf].clusters =
       Append(root[leaf].clusters, Len(cluster_objs'))

\* C31: a parse that reaches a leaf assigns the line to the cluster of that
\* leaf with the highest similarity above sim_th, the earliest one on ties;
\* when no cluster of the leaf is above sim_th it creates a cluster with
\* the line's tokens as template and appends it to that leaf's list.
C31_BestAboveThresholdOrNewInLeaf ==
  [][(/\ nparsed' = nparsed + 1
      /\ last_result'.tokens # <<>>
      /\ LeafReached(last_result'.tokens) # NoPath)
       => LET tokens == last_result'.tokens
              leaf == LeafReached(tokens)
          IN IF Qualifying(tokens, root[leaf].clusters) # {}
             THEN \E i \in Qualifying(tokens, root[leaf].clusters) :
                    /\ BestOf(tokens, root[leaf].clusters, i)
                    /\ AssignedTo(root[leaf].clusters, i)
             ELSE CreatedIn(tokens, leaf)
    ]_vars

\* The places of the tree that hold the cluster c: a node path and a
\* position in the list of that node.
PlacesOf(c) ==
  {<<p, i>> \in UNION {{p} \X DOMAIN root[p].clusters : p \in DOMAIN root} :
     root[p].clusters[i] = c}

\* The path starts at the root child of the length n, is as deep as
\* min(depth - 1, n) below it, and each of its keys is the template token
\* of its position or the wildcard.
PathFits(path, template_tokens) ==
  /\ Len(path) = 1 + Min(depth - 1, Len(template_tokens))
  /\ path[1] = ToString(Len(template_tokens))
  /\ \A i \in 1..(Len(path) - 1) :
       path[i + 1] \in {template_tokens[i], WILDCARD}

BothTimestamps(payload) ==
  /\ "workflow_run" \in DOMAIN payload
  /\ Get(payload["workflow_run"], "run_started_at", None) \notin {None, BadValue}
  /\ Get(payload["workflow_run"], "updated_at", None) \notin {None, BadValue}

\* C33: for a payload that is not extracted as GitLab, duration_seconds is
\* the difference of the two timestamps whenever both are there and parse,
\* also when _enriched carries a duration_seconds; the enriched value is
\* used only without such timestamps, and 0 only without either.
C33_TimestampsWinOverEnriched ==
  (fx_pc = "done" /\ fx_message.features.provider # "gitlab") =>
    fx_message.features.duration_seconds =
      (IF BothTimestamps(fx_payload)
       THEN fx_payload["workflow_run"].updated_at
            - fx_payload["workflow_run"].run_started_at
       ELSE Get(Enriched(fx_payload), "duration_seconds", 0))

\* The lines without the blank ones.
NonBlank(lines) == SelectSeq(lines, LAMBDA line : ~IsBlank(line))

\* The payload with every blank line taken out of its raw_logs and of the
\* log_lines of its steps.
WithoutBlankLines(payload) ==
  LET enriched == payload["_enriched"]
      steps == Get(enriched, "steps", <<>>)
      plain == [i \in DOMAIN steps |->
                  [steps[i] EXCEPT !.log_lines = NonBlank(@)]]
  IN [payload EXCEPT
        !["_enriched"] =
           WithKey(WithKey(enriched, "raw_logs",
                           LogText(NonBlank(enriched["raw_logs"].lines))),
                   "steps", plain)]

\* C34: the blank lines of a build's log (of its raw text and of its step
\* log_lines) change none of the 12 feature values and nothing of the Drain
\* parser: the extraction gives what it gives for the log without them.
C34_BlankLinesChangeNothing ==
  [][(fx_pc = "extract" /\ fx_pc' = "done") =>
       LET plain == extract(DrainState, WithoutBlankLines(fx_payload))
       IN /\ \A k \in FeatureSet :
               fx_message'.features[k] = plain.features[k]
          /\ root' = plain.dr.root
          /\ cluster_objs' = plain.dr.cluster_objs
          /\ clusters' = plain.dr.clusters
    ]_vars

\* C35: whichever way the training data came (CSV path, uploaded CSV,
\* dataframe), the rows that train() fits the scaler and the forest on
\* are, when the data has a label column, rows labelled normal only.
C35_OnlyNormalRowsAreFitted ==
  \A r \in DOMAIN t_X :
    "label" \in DOMAIN t_X[r] => t_X[r]["label"] = "normal"

\* The delivery in the detector's hand is a features message that the
\* log-parser published.
FromParser(body) ==
  /\ body.json = "object"
  /\ "_meta" \in DOMAIN body.value
  /\ Get(body.value["_meta"], "source", "none") = "log-parser"
  /\ "features" \in DOMAIN body.value

\* C36: the row that the detector worker saves for a features message of
\* the log-parser has the build_id of that message's features.
C36_RowKeepsBuildId ==
  [][(/\ ad_pc = "save"
      /\ Len(anomaly_results') = Len(anomaly_results) + 1
      /\ FromParser(ad_h.body))
       => anomaly_results'[Len(anomaly_results')].build_id
            = ad_h.body.value["features"].build_id
    ]_vars

\* The prediction that the forest read for predict() gives for the
\* features in hand.
RawPredictionRead ==
  forest_predict(p_forest_p,
                 ScalerTransform(p_scaler, _extract_feature_vector(p_features)))

\* The features count at least one suspicious pattern (rule 1).
RuleOneFires(features) ==
  OrZero(Get(features, "suspicious_pattern_count", 0)) >= 1

\* C37: a result returned by predict() is flagged exactly when the model's
\* prediction is -1 or the features count a suspicious pattern, and its
\* prediction field is the model's own value, also when only the override
\* flagged the build.
C37_FlaggedIffModelOrRuleOne ==
  [][(p_pc = "explain" /\ result'.kind = "result" /\ result' # result) =>
       /\ result'.value.prediction = RawPredictionRead
       /\ result'.value.is_anomaly <=>
            (RawPredictionRead = -1 \/ RuleOneFires(p_features))
    ]_vars

\* A build that the model takes for normal was flagged by the override
\* alone, and its prediction is still +1.
C37_Witness ==
  /\ result.kind = "result"
  /\ result.value.is_anomaly
  /\ result.value.prediction = 1
  /\ RuleOneFires(result.features)

\* The features messages acknowledged (basic_ack) in the step: by the
\* consumer thread at the end of process_message, and by the API thread
\* inside process_one.
AcksOfConsumer ==
  IF ad_pc = "settle" /\ ad_pc' = "idle" /\ ad_h.outcome = "ack"
  THEN 1 ELSE 0

AcksOfApi ==
  IF /\ qp_pc = "process_message"
     /\ qp_pc' = "process_one"
     /\ ProcessMessageRaises(qp_h) = "none"
     /\ features_settled' = features_settled + 1
  THEN 1 ELSE 0

\* C38: anomaly_count never exceeds processed_count, and processed_count
\* is the number of features messages acknowledged so far: both start at
\* zero and every step adds to processed_count exactly the messages it
\* acknowledges, whichever of the two threads takes it.
C38_ProcessedCountIsAcked ==
  [][/\ anomaly_count' <= processed_count'
     /\ processed_count' - processed_count = AcksOfConsumer + AcksOfApi
    ]_vars

\* The clusters stored in the leaves of the tree.
InTree == {c \in DOMAIN cluster_objs : PlacesOf(c) # {}}

\* C39: the clusters index holds every cluster of the tree under its
\* template_id (so no two clusters of the tree share a template_id and no
\* entry was overwritten by a later cluster), and get_all_templates()
\* reports every cluster of the tree.
C39_IndexHoldsEveryCluster ==
  /\ \A c \in InTree :
       /\ cluster_objs[c].template_id \in DOMAIN clusters
       /\ clusters[cluster_objs[c].template_id] = c
  /\ \A c1, c2 \in InTree :
       cluster_objs[c1].template_id = cluster_objs[c2].template_id => c1 = c2
  /\ Cardinality(get_all_templates) = Cardinality(InTree)

\* A train() call is under way whose fit_transform is going to raise (the
\* frame has no rows or none of the feature columns).
TrainIsFailing ==
  /\ t_pc \in {"new_scaler", "fit_scaler"}
  /\ t_X = <<>> \/ t_cols = <<>>

\* C40: a train() call that fails leaves model, scaler, is_trained and
\* training_stats as they were before the call.  train() has no statement
\* that puts an attribute back, so this is: no step of such a call changes
\* any of the four.
C40_FailedTrainChangesNothing ==
  [][(TrainIsFailing /\ t_pc' # t_pc) => UNCHANGED instVars]_vars

====
